---- MODULE Spec2Model ----
(***************************************************************************)
(* Model of the VO reconciliation driver of vsc-administration:            *)
(*   lib/vsc/administration/vo.py   (process_vos, update_vo_status,        *)
(*                                   VscTier2AccountpageVo)                *)
(*   bin/sync_ugent_vsc_users.py    (main)                                 *)
(*                                                                         *)
(* The system of record (account page REST API) and the storage backends   *)
(* are the environment.  A REST read returns what the system of record     *)
(* holds; what it holds is an input, drawn when it is first read and then  *)
(* kept (no other writer) unless the program itself PATCHes it.  Every     *)
(* backend or REST call may raise; the number of raised calls in one       *)
(* behaviour is bounded by MaxFaults.                                      *)
(***************************************************************************)
EXTENDS Naturals, Integers, Sequences, FiniteSets, TLC

\* ----------------------------------------------------------------- bounds
NumVos == 2          \* regular (non-default) VOs gvo1..gvoN
NumMembers == 2      \* accounts per VO
MaxChangeset == 2    \* length of the vo_ids list handed to process_vos
MaxFaults == 2       \* calls that raise in one behaviour
MaxStorages == 2     \* storages named by the --storage option
MaxRuns == 2         \* scheduled runs of the sync script
MaxWrites == 1       \* modifications made by external writers while runs are in progress

\* --------------------------------------------------- vsc.config.base names
VSC_HOME == "VSC_HOME"
VSC_DATA == "VSC_DATA"
VSC_DATA_SHARED == "VSC_DATA_SHARED"
VSC_SCRATCH_KYUKON == "VSC_SCRATCH_KYUKON"
\* VSC_PRODUCTION_SCRATCH[host_institute]
VSC_PRODUCTION_SCRATCH == {VSC_SCRATCH_KYUKON}
Storages == {VSC_HOME, VSC_DATA, VSC_DATA_SHARED, VSC_SCRATCH_KYUKON}

\* NEW (a reserved word of TLA+)
STATUS_NEW == "new"
MODIFIED == "modified"
MODIFY == "modify"
ACTIVE == "active"
INACTIVE == "inactive"
Status == {STATUS_NEW, MODIFIED, MODIFY, ACTIVE, INACTIVE}

RegularVos == 1..NumVos
\* INSTITUTE_VOS_BY_INSTITUTE[host_institute][host_institute]
INSTITUTE_VO == NumVos + 1
\* the institute-wide VO of another institute
OTHER_INSTITUTE_VO == NumVos + 2
DEFAULT_VOS_ALL == {INSTITUTE_VO, OTHER_INSTITUTE_VO}
VoIds == RegularVos \cup DEFAULT_VOS_ALL

\* accounts: member k of VO v has the numeric id 10 * v + k
Uid(v, k) == 10 * v + k
MembersOf(v) == {Uid(v, k) : k \in 1..NumMembers}
\* vo.members(): the full member list of the VO record
VoMembers(v) == [k \in 1..NumMembers |-> Uid(v, k)]
\* the autogroup of the VO's data-sharing group (gvo -> gvos)
SharingGroup(v) == 1000 + v

\* What the system of record holds for an item: not read yet, or the value read
Unread == [known |-> FALSE]
Known(x) == [known |-> TRUE, val |-> x]
Reveal(cur, dom) == IF cur.known THEN {cur.val} ELSE dom

\* quota records the system of record may hold (hard limit in KiB)
QuotaRec(kib) == [has |-> TRUE, hard |-> kib, others |-> FALSE, many |-> FALSE]
NoQuotaRec == [has |-> FALSE, hard |-> 0, others |-> FALSE, many |-> FALSE]
\* a member with VO quota records, none of them for this VO and storage
OtherVoQuotaRec == [has |-> FALSE, hard |-> 0, others |-> TRUE, many |-> FALSE]
\* a VO with more than one quota record for the same storage
ManyQuotaRecs == [has |-> TRUE, hard |-> 5, others |-> FALSE, many |-> TRUE]
VoQuotaRecs == {QuotaRec(5)}
\* the scratch quota records of a VO: one for the storage, none at all, several
VoScratchQuotaRecs == {QuotaRec(5), NoQuotaRec, ManyQuotaRecs}
\* storage.quota_vo, the default VO quota of a storage (KiB).  Lines 140 and
\* 384-385 look the storage up as self.storage[storage_name]; VscStorage is
\* taken to answer a storage name at its top level, as these lines (and
\* project.py line 97) expect.
quota_vo == 3
VoSharedQuotaRecs == {QuotaRec(5), QuotaRec(0), NoQuotaRec}
MemberQuotaRecs == {QuotaRec(2), NoQuotaRec, OtherVoQuotaRec}
\* the modified-member lists a VO's "modified since" query may return
ModifiedLists(v) == {s \in UNION {[1..n -> {Uid(v, k) : k \in 1..NumMembers}] : n \in 0..NumMembers} :
                        \A a, b \in DOMAIN s : s[a] = s[b] => a = b}

\* ------------------------------------------------------------ pure helpers
RECURSIVE Insert(_, _)
Insert(x, s) ==
    IF s = <<>> THEN <<x>>
    ELSE IF x <= Head(s) THEN <<x>> \o s
    ELSE <<Head(s)>> \o Insert(x, Tail(s))

RECURSIVE Sorted(_)
\* sorted(vo_ids)
Sorted(s) == IF s = <<>> THEN <<>> ELSE Insert(Head(s), Sorted(Tail(s)))

SeqsUpTo(S, n) == UNION {[1..k -> S] : k \in 0..n}
Injective(s) == \A a, b \in DOMAIN s : s[a] = s[b] => a = b
Range(s) == {s[k] : k \in DOMAIN s}
Put(g, k, v) == IF k \in DOMAIN g THEN [g EXCEPT ![k] = v] ELSE g @@ (k :> v)
Count(s, P(_)) == Cardinality({k \in DOMAIN s : P(s[k])})

\* ------------------------------------------------- Monoid / MonoidDict
\* A value held by the result maps: a python list, or the bound method
\* object vo.members (which is what line 633 assigns).
ListVal(s) == [kind |-> "list", items |-> s]
MethodVal == [kind |-> "method", items |-> <<>>]

\* listm = Monoid([], lambda xs, ys: xs + ys): list + list concatenates,
\* anything else raises TypeError.
MonoidOp(x, y) ==
    IF x.kind = "list" /\ y.kind = "list"
    THEN [raised |-> FALSE, val |-> ListVal(x.items \o y.items)]
    ELSE [raised |-> TRUE, val |-> x]

\* a plain dict in the place of the MonoidDict: the last value stored wins
MonoidDictSet_Overwrite(d, k, v) == [raised |-> FALSE, dict |-> Put(d, k, v)]

\* MonoidDict.__setitem__: combine with the present value, or store.
MonoidDictSet(d, k, v) ==
    IF k \in DOMAIN d
    THEN LET r == MonoidOp(d[k], v)
         IN  [raised |-> r.raised, dict |-> [d EXCEPT ![k] = r.val]]
    ELSE [raised |-> FALSE, dict |-> d @@ (k :> v)]

\* ------------------------------------------------------------------ state
VARIABLES
    vos,               \* sorted(vo_ids), the list the loop of process_vos walks
    storage_name,      \* process_vos argument
    dry_run,           \* options.dry_run
    pc,                \* position in process_vos
    i,                 \* index of the current VO in sorted(vo_ids)
    vo_cached,         \* the current VO object holds its VO record (_vo_cache)
    modified_members,  \* modified_members of the current VO
    j,                 \* index of the current member
    account_cached,    \* the current member object holds its account record
    ok_vos,            \* MonoidDict of successes
    error_vos,         \* MonoidDict of failures
    fs,                \* state of the storage backends
    backend_dry_run,   \* dry_run flag held by the backend operator of every storage
    storage_conf,      \* VscStorage: backend kind and version of every storage
    sor_status,        \* system of record: VO status
    sor_moderator,     \* system of record: does the VO have a moderator
    sor_vo_quota,      \* system of record: VO quota per storage (KiB)
    sor_modified,      \* system of record: members modified since datestamp
    sor_member_quota,  \* system of record: member quota in the VO fileset
    log,               \* calls issued for the current VO (history)
    hist,              \* what happened to the current VO (history)
    faults,            \* number of calls that raised
    pass,              \* which call of process_vos this is
    fs1,               \* the backend state when the first call returned (history)
    main,              \* sync_ugent_vsc_users.main: position and locals
    timestamp_file,    \* the timestamp kept in SYNC_TIMESTAMP_FILENAME
    sor_changed,       \* system of record: VOs (and VO quota) modified since the timestamp
    sacct,             \* slurm/sacct.py: the call being made, its arguments and result
    slurm_sync,        \* sync_slurm_acct.main: position, commands and what was run
    vo_obj             \* a VscTier2AccountpageVo whose properties are read on their own

ctl == <<pc, i, vo_cached, modified_members, j, account_cached>>
args == <<vos, storage_name, dry_run, storage_conf>>
sor == <<sor_status, sor_moderator, sor_vo_quota, sor_modified, sor_member_quota>>
res == <<ok_vos, error_vos>>
slurm == <<sacct, slurm_sync, vo_obj>>
caller == <<pass, fs1, main, timestamp_file, sor_changed, slurm>>
vars == <<args, ctl, res, fs, backend_dry_run, sor, log, hist, faults, caller>>

vo_id == vos[i]
member == modified_members[j]

\* filesets: the filesets get_fileset_info finds; made: the filesets the
\* backends made, one entry per make_fileset that returned
EmptyFs == [filesets |-> {}, made |-> <<>>, dirs |-> {}, mode |-> <<>>, owner |-> <<>>,
            fsquota |-> <<>>, grace |-> {}, usrquota |-> <<>>]
\* MonoidDict.__getitem__: the value of the key, or the monoid's null
MonoidDictGet(d, k) == IF k \in DOMAIN d THEN d[k] ELSE ListVal(<<>>)

\* the history of one VO: how its VO-level steps and its members ended, how
\* the lookup of the fileset owner ended, the status update_vo_status read,
\* the PATCHes sent, how the last PATCH ended and the exception that left
\* update_vo_status, how the quota step of each member ended (in the order of
\* the members), and the VO's entries in the result maps when its loop body
\* was entered
NoHist == [vo_failed |-> FALSE, handler_raised |-> "no", fetched |-> FALSE,
           m_raised |-> {}, m_ok |-> {}, patches |-> 0, status |-> "", owner |-> "",
           patch_out |-> "", exc |-> "", m_quota |-> <<>>,
           ok0 |-> ListVal(<<>>), err0 |-> ListVal(<<>>)]
StartHist(v) == [NoHist EXCEPT !.ok0 = MonoidDictGet(ok_vos, v),
                               !.err0 = MonoidDictGet(error_vos, v)]

\* ------------------------------------------------------ storage backends
\* what the configuration may hold for a storage: its backend, and for a
\* gpfs backend whether storage.version is below (3, 5, 0, 0)
StorageConfs(st) ==
    IF st = VSC_HOME THEN {[backend |-> "posix", old |-> FALSE]}
    ELSE {[backend |-> "gpfs", old |-> FALSE], [backend |-> "gpfs", old |-> TRUE],
          [backend |-> "oceanstor", old |-> FALSE]}
DefaultConf(st) ==
    [backend |-> IF st = VSC_HOME THEN "posix" ELSE "gpfs", old |-> FALSE]
\* storage.backend of self.storage[host_institute][storage]
StorageBackend(st) == storage_conf[st].backend
\* storage.data_replication_factor
ReplicationFactor(st) == IF st = VSC_HOME THEN 1 ELSE 2
\* pwd.getpwnam('nobody').pw_uid
NOBODY_UID == 65534
\* the mode of a VO fileset (0o770) and of a member directory (0o700)
FILESET_MODE == 504
MEMBER_DIR_MODE == 448

\* _get_path: the path template applied to the VO id, under the mount point
VoPath(st, v) == [st |-> st, vo |-> v, member |-> 0]
\* os.path.dirname(path) of a fileset path
Dirname(p) == [st |-> p.st, vo |-> 0, member |-> 0]
\* os.path.join(fileset path, member.user_id)
MemberPath(st, v, m) == [st |-> st, vo |-> v, member |-> m]

\* the same without the replication factor
QuotaToApply_NoReplication(st, kib) ==
    [hard |-> kib * 1024, soft |-> (kib * 1024 * 95) \div 100]

\* hard = quota * 1024 (* replication factor on gpfs); soft = int(hard * 0.95)
QuotaToApply(st, kib) ==
    LET h0 == kib * 1024
        hard == IF StorageBackend(st) = "gpfs" THEN h0 * ReplicationFactor(st) ELSE h0
    IN  [hard |-> hard, soft |-> (hard * 95) \div 100]

Call(op, st, path, arg) == [op |-> op, st |-> st, path |-> path, arg |-> arg]
NoArg == [none |-> TRUE]
ReadOps == {"list_filesets", "get_fileset_info"}

\* a backend that never looks at its dry_run flag
Apply_IgnoresDryRun(f, c, dry) ==
    CASE c.op = "make_dir" -> [f EXCEPT !.dirs = @ \cup {c.path}]
      [] c.op = "make_fileset" ->
           [f EXCEPT !.filesets = @ \cup {[st |-> c.st, name |-> c.arg.name]},
                     !.made = Append(@, [st |-> c.st, name |-> c.arg.name, path |-> c.path]),
                     !.dirs = @ \cup {c.path}]
      [] c.op = "chmod" -> [f EXCEPT !.mode = Put(@, c.path, c.arg.mode)]
      [] OTHER -> f

\* The effect of one backend call on the backend state.  A backend whose
\* dry_run flag is set logs a mutating call and changes nothing.
Apply(f, c, dry) ==
    IF dry \/ c.op \in ReadOps THEN f
    ELSE CASE c.op = "make_dir" -> [f EXCEPT !.dirs = @ \cup {c.path}]
           [] c.op = "make_fileset" ->
                [f EXCEPT !.filesets = @ \cup {[st |-> c.st, name |-> c.arg.name]},
                          !.made = Append(@, [st |-> c.st, name |-> c.arg.name,
                                              path |-> c.path]),
                          !.dirs = @ \cup {c.path}]
           [] c.op = "chmod" -> [f EXCEPT !.mode = Put(@, c.path, c.arg.mode)]
           [] c.op = "chown" ->
                [f EXCEPT !.owner = Put(@, c.path, [uid |-> c.arg.uid, gid |-> c.arg.gid])]
           [] c.op = "set_fileset_quota" ->
                [f EXCEPT !.fsquota = Put(@, [st |-> c.st, name |-> c.arg.name],
                                          [soft |-> c.arg.soft, hard |-> c.arg.hard])]
           [] c.op = "set_fileset_grace" -> [f EXCEPT !.grace = @ \cup {c.path}]
           [] c.op = "set_user_quota" ->
                [f EXCEPT !.usrquota = Put(@, [path |-> c.path, user |-> c.arg.user],
                                           [soft |-> c.arg.soft, hard |-> c.arg.hard])]
           [] c.op = "create_stat_directory" ->
                IF c.path \in f.dirs
                THEN [f EXCEPT !.owner = Put(@, c.path, [uid |-> c.arg.uid, gid |-> c.arg.gid])]
                ELSE [f EXCEPT !.dirs = @ \cup {c.path},
                               !.mode = Put(@, c.path, c.arg.mode),
                               !.owner = Put(@, c.path, [uid |-> c.arg.uid, gid |-> c.arg.gid])]

RECURSIVE RunCalls(_, _, _, _)
\* the backend state after the first n calls of cs returned
RunCalls(f, cs, n, dry) ==
    IF n = 0 THEN f ELSE Apply(RunCalls(f, cs, n - 1, dry), cs[n], dry)

\* a call can raise, unless it is a mutating call that dry-run turns into a log line
CanRaise(c, dry) == ~dry \/ c.op \in ReadOps

\* _create_fileset chowning to nobody first and to the moderator afterwards
CreateFilesetCalls_ChownTwice(f, st, path, name, parent, uid, gid) ==
    <<Call("list_filesets", st, path, NoArg),
      Call("get_fileset_info", st, path,
           [name |-> name, found |-> [st |-> st, name |-> name] \in f.filesets])>>
    \o (IF [st |-> st, name |-> name] \in f.filesets
        THEN <<>>
        ELSE <<Call("make_dir", st, Dirname(path), NoArg),
               Call("make_fileset", st, path, [name |-> name, parent |-> parent])>>)
    \o <<Call("chmod", st, path, [mode |-> FILESET_MODE]),
         Call("chown", st, path, [uid |-> NOBODY_UID, gid |-> gid]),
         Call("chown", st, path, [uid |-> uid, gid |-> gid])>>

\* _create_fileset without the get_fileset_info test of line 243
CreateFilesetCalls_AlwaysCreates(f, st, path, name, parent, uid, gid) ==
    <<Call("list_filesets", st, path, NoArg),
      Call("make_dir", st, Dirname(path), NoArg),
      Call("make_fileset", st, path, [name |-> name, parent |-> parent]),
      Call("chmod", st, path, [mode |-> FILESET_MODE]),
      Call("chown", st, path, [uid |-> uid, gid |-> gid])>>

\* _create_fileset making the fileset whatever get_fileset_info answers
CreateFilesetCalls_IgnoresFound(f, st, path, name, parent, uid, gid) ==
    <<Call("list_filesets", st, path, NoArg),
      Call("get_fileset_info", st, path, [name |-> name, found |-> FALSE]),
      Call("make_dir", st, Dirname(path), NoArg),
      Call("make_fileset", st, path, [name |-> name, parent |-> parent]),
      Call("chmod", st, path, [mode |-> FILESET_MODE]),
      Call("chown", st, path, [uid |-> uid, gid |-> gid])>>

\* _create_fileset making the fileset without making its parent directory
CreateFilesetCalls_NoMakeDir(f, st, path, name, parent, uid, gid) ==
    <<Call("list_filesets", st, path, NoArg),
      Call("get_fileset_info", st, path,
           [name |-> name, found |-> [st |-> st, name |-> name] \in f.filesets])>>
    \o (IF [st |-> st, name |-> name] \in f.filesets
        THEN <<>>
        ELSE <<Call("make_fileset", st, path, [name |-> name, parent |-> parent])>>)
    \o <<Call("chmod", st, path, [mode |-> FILESET_MODE]),
         Call("chown", st, path, [uid |-> uid, gid |-> gid])>>

\* _create_fileset setting mode and owner of the filesets it makes only
CreateFilesetCalls_OnlyWhenMade(f, st, path, name, parent, uid, gid) ==
    <<Call("list_filesets", st, path, NoArg),
      Call("get_fileset_info", st, path,
           [name |-> name, found |-> [st |-> st, name |-> name] \in f.filesets])>>
    \o (IF [st |-> st, name |-> name] \in f.filesets
        THEN <<>>
        ELSE <<Call("make_dir", st, Dirname(path), NoArg),
               Call("make_fileset", st, path, [name |-> name, parent |-> parent]),
               Call("chmod", st, path, [mode |-> FILESET_MODE]),
               Call("chown", st, path, [uid |-> uid, gid |-> gid])>>)

\* _create_fileset: the backend calls it issues, in order; the answer of
\* get_fileset_info is kept with the call
CreateFilesetCalls(f, st, path, name, parent, uid, gid) ==
    <<Call("list_filesets", st, path, NoArg),
      Call("get_fileset_info", st, path,
           [name |-> name, found |-> [st |-> st, name |-> name] \in f.filesets])>>
    \o (IF [st |-> st, name |-> name] \in f.filesets
        THEN <<>>
        ELSE <<Call("make_dir", st, Dirname(path), NoArg),
               Call("make_fileset", st, path, [name |-> name, parent |-> parent])>>)
    \o <<Call("chmod", st, path, [mode |-> FILESET_MODE]),
         Call("chown", st, path, [uid |-> uid, gid |-> gid])>>

\* MukProject.create_scratch_fileset: the calls it issues on self.gpfs for the
\* project fileset, owned by the submitter when the project has one
MUK_SCRATCH == "MUK_SCRATCH"
MukCreateScratchFilesetCalls(f, project, submitter, gid, quota) ==
    LET path == VoPath(MUK_SCRATCH, project)
        found == [st |-> MUK_SCRATCH, name |-> project] \in f.filesets
    IN  <<Call("list_filesets", MUK_SCRATCH, path, NoArg),
          Call("get_fileset_info", MUK_SCRATCH, path, [name |-> project, found |-> found])>>
        \o (IF found
            THEN <<>>
            ELSE <<Call("make_dir", MUK_SCRATCH, Dirname(path), NoArg),
                   Call("make_fileset", MUK_SCRATCH, path,
                        [name |-> project, parent |-> "none"])>>)
        \o <<Call("chmod", MUK_SCRATCH, path, [mode |-> FILESET_MODE]),
             Call("chown", MUK_SCRATCH, path,
                  [uid |-> IF submitter.has THEN submitter.uid ELSE NOBODY_UID,
                   gid |-> gid]),
             Call("set_fileset_quota", MUK_SCRATCH, path,
                  [name |-> project, soft |-> quota])>>

\* _set_quota: the backend calls it issues, in order
SetQuotaCalls(st, path, name, kib) ==
    LET q == QuotaToApply(st, kib)
    IN  <<Call("set_fileset_quota", st, path, [name |-> name, soft |-> q.soft, hard |-> q.hard]),
          Call("set_fileset_grace", st, path, NoArg)>>

\* _set_member_quota
SetMemberQuotaCalls(st, path, m, kib) ==
    LET q == QuotaToApply(st, kib)
    IN  <<Call("set_user_quota", st, path, [user |-> m, soft |-> q.soft, hard |-> q.hard])>>

\* _create_member_dir (gid: the member's usergroup has the member's number)
CreateMemberDirCalls(st, target, m) ==
    <<Call("create_stat_directory", st, target,
           [mode |-> MEMBER_DIR_MODE, uid |-> m, gid |-> m])>>

\* ------------------------------------------------------------ process_vos
\* the skip rules of the loop body, as the position reached next
\* the loop body without the test of line 604
AfterScratchPc_NoMemberSkip(v) == "fetch_members"

AfterScratchPc(v) ==
    IF v \in DEFAULT_VOS_ALL /\ storage_name \in {VSC_HOME, VSC_DATA}
    THEN "continue" ELSE "fetch_members"

AfterSharedPc(v) ==
    IF v = INSTITUTE_VO THEN "continue"
    ELSE IF storage_name \in VSC_PRODUCTION_SCRATCH THEN "create_scratch_fileset"
    ELSE AfterScratchPc(v)

AfterDataPc(v) ==
    IF storage_name = VSC_DATA_SHARED /\ v \notin DEFAULT_VOS_ALL
    THEN "check_data_sharing" ELSE AfterSharedPc(v)

\* the loop body asking for the status change before the fileset is made
EntryPc_StatusFirst(v) ==
    IF storage_name = VSC_HOME THEN "continue"
    ELSE IF storage_name = VSC_DATA /\ v \notin DEFAULT_VOS_ALL THEN "update_vo_status"
    ELSE AfterDataPc(v)

EntryPc(v) ==
    IF storage_name = VSC_HOME THEN "continue"
    ELSE IF storage_name = VSC_DATA /\ v \notin DEFAULT_VOS_ALL THEN "create_data_fileset"
    ELSE AfterDataPc(v)

MemberEntryPc ==
    IF storage_name = VSC_DATA THEN "set_member_data_quota"
    ELSE IF storage_name \in VSC_PRODUCTION_SCRATCH THEN "set_member_scratch_quota"
    ELSE "member_ok"

\* go on in the loop body, or `continue` with the next VO
GotoPc(p) ==
    /\ pc' = IF p = "continue" THEN "loop" ELSE p
    /\ i' = IF p = "continue" THEN i + 1 ELSE i

\* go on with the next member, or with the next VO after the last member
NextMember ==
    /\ j' = j + 1
    /\ account_cached' = FALSE
    /\ pc' = IF j + 1 > Len(modified_members) THEN "loop" ELSE MemberEntryPc
    /\ i' = IF j + 1 > Len(modified_members) THEN i + 1 ELSE i

\* the dry_run flag of the operator the calls cs are made through
DryRunOf(cs) == cs # <<>> /\ backend_dry_run[cs[1].st]

\* the calls cs are issued in order; call k + 1 raises, or (k = Len(cs)) all return
Issue(cs, k) ==
    /\ k < Len(cs) => CanRaise(cs[k + 1], DryRunOf(cs)) /\ faults < MaxFaults
    /\ fs' = RunCalls(fs, cs, k, DryRunOf(cs))
    /\ log' = log \o SubSeq(cs, 1, IF k < Len(cs) THEN k + 1 ELSE k)
    /\ faults' = IF k < Len(cs) THEN faults + 1 ELSE faults

\* a REST call raises HTTPError
RestRaises ==
    /\ faults < MaxFaults
    /\ faults' = faults + 1
    /\ UNCHANGED <<fs, log>>

\* member.account (VscAccountPageUser.account): the account record is fetched
\* from the accountpage when it is first used, and kept
AccountRaises == ~account_cached /\ RestRaises
\* member.usergroup (VscAccountPageUser.usergroup), fetched in the same way
UsergroupRaises == RestRaises

\* an exception leaves a VO-level step: the handler of line 631 is next
VoRaise ==
    /\ pc' = "vo_except"
    /\ hist' = [hist EXCEPT !.vo_failed = TRUE]
    /\ UNCHANGED <<i, modified_members, j, account_cached>>

\* the positions of a member's quota step (lines 617 and 621)
MemberQuotaPcs == {"set_member_data_quota", "set_member_scratch_quota"}
\* the quota step of the current member returned
MemberQuotaReturned == hist' = [hist EXCEPT !.m_quota = Append(@, "returned")]

\* an exception leaves a member's provisioning: the handler of line 627 is next
MemberRaise ==
    /\ pc' = "member_except"
    /\ hist' = [hist EXCEPT !.m_raised = @ \cup {j},
                            !.m_quota = IF pc \in MemberQuotaPcs
                                        THEN Append(@, "raised") ELSE @]
    /\ UNCHANGED <<i, modified_members, j>>

\* main is not running: process_vos is called on its own
NoMain == [pc |-> "none"]
NoSacct == [call |-> "none", pc |-> "none"]
NoSlurmSync == [pc |-> "none"]
NoVoObject == [pc |-> "none"]
NothingChanged == [vos |-> <<>>, vo_quota |-> <<>>, late |-> <<>>]

\* The state in which process_vos is called.  The storage the call is about
\* has its default configuration, or (anyConf) any configuration; every member
\* has a quota record of its own and every VO one scratch quota record, or
\* (anyRecords) whatever the system of record answers when the records are
\* read.
InitCall(anyConf, anyRecords) ==
    /\ \E vo_ids \in SeqsUpTo(VoIds, MaxChangeset) : vos = Sorted(vo_ids)
    /\ storage_name \in Storages
    /\ dry_run \in BOOLEAN
    /\ pc = "loop"
    /\ i = 1
    /\ vo_cached = FALSE
    /\ modified_members = <<>>
    /\ j = 0
    /\ account_cached = FALSE
    /\ ok_vos = <<>>
    /\ error_vos = <<>>
    /\ fs = EmptyFs
    /\ backend_dry_run = [st \in Storages |-> FALSE]
    /\ \E c \in (IF anyConf THEN StorageConfs(storage_name)
                  ELSE {DefaultConf(storage_name)}) :
         storage_conf = [st \in Storages |-> IF st = storage_name THEN c ELSE DefaultConf(st)]
    /\ sor_status = [v \in VoIds |-> Unread]
    /\ sor_moderator = [v \in VoIds |-> Unread]
    /\ sor_vo_quota = [k \in VoIds \X Storages |->
                          IF anyRecords \/ k[2] \notin VSC_PRODUCTION_SCRATCH
                          THEN Unread ELSE Known(QuotaRec(5))]
    /\ sor_modified = [v \in VoIds |-> Unread]
    /\ sor_member_quota = [k \in (UNION {MembersOf(v) : v \in VoIds}) \X Storages |->
                              IF anyRecords THEN Unread ELSE Known(QuotaRec(2))]
    /\ log = <<>>
    /\ hist = NoHist
    /\ faults = 0
    /\ pass = 1
    /\ fs1 = EmptyFs
    /\ main = NoMain
    /\ timestamp_file = 0
    /\ sor_changed = NothingChanged
    /\ sacct = NoSacct
    /\ slurm_sync = NoSlurmSync
    /\ vo_obj = NoVoObject

\* process_vos called for any changeset of up to MaxChangeset VOs
Init == InitCall(FALSE, FALSE)

\* VscTier2AccountpageVo.__init__: a new operator for every storage of the
\* host institute, and self.dry_run = False
NewOperators == [st \in Storages |-> FALSE]

\* dry_run reaches the operator of the home storage only
SetDryRun_HomeOnly(operators, value) == [operators EXCEPT ![VSC_HOME] = value]

\* __setattr__ for dry_run: the value is set on the operator of every storage
SetDryRun(operators, value) == [st \in DOMAIN operators |-> value]

\* for vo_id in sorted(vo_ids): construct the VO, set dry_run, apply the
\* first skip rules; after the last VO return (ok_vos, error_vos)
NextVo ==
    /\ pc = "loop"
    /\ IF i > Len(vos)
       THEN /\ pc' = "done"
            /\ UNCHANGED <<i, vo_cached, backend_dry_run, log, hist>>
            /\ UNCHANGED <<modified_members, j>>
       ELSE /\ backend_dry_run' = SetDryRun(NewOperators, dry_run)
            /\ vo_cached' = FALSE
            /\ log' = <<>>
            /\ hist' = StartHist(vo_id)
            /\ modified_members' = <<>>
            /\ j' = 0
            /\ GotoPc(EntryPc(vo_id))
    /\ UNCHANGED <<args, caller, account_cached, res, fs, sor, faults>>

\* how the lookup of the first moderator's account ends (lines 260-268)
OwnerLookup(mod, lookup) ==
    IF mod = "no" THEN "no_moderator"
    ELSE IF lookup = "error" THEN "lookup_failed" ELSE "moderator"

\* the fileset is handed to the moderator whatever the lookup gave
OwnerUid_NoFallback(v, owner) == Uid(v, 1)

\* the uid chown is called with: the first moderator, or nobody
OwnerUid(v, owner) == IF owner = "moderator" THEN Uid(v, 1) ELSE NOBODY_UID

\* _create_fileset, entered from create_*_fileset at position pc
CreateFileset(st, name, gid, parent, okpc) ==
    LET v == vo_id
        path == VoPath(st, v)
    IN
    \/ \* self.vo raises: the VO record cannot be fetched
       /\ ~vo_cached
       /\ RestRaises
       /\ VoRaise
       /\ UNCHANGED <<args, caller, vo_cached, res, backend_dry_run, sor>>
    \/ \E mod \in Reveal(sor_moderator[v], {"yes", "no"}), lookup \in {"ok", "error"} :
         LET owner == OwnerLookup(mod, lookup)
             cs == CreateFilesetCalls(fs, st, path, name, parent, OwnerUid(v, owner), gid)
             lf == IF lookup = "error" THEN 1 ELSE 0
         IN  \E k \in 0..Len(cs) :
               \* the moderator is looked up after chmod returned
               /\ k < Len(cs) - 1 =>
                     lookup = "ok" /\ mod = CHOOSE x \in Reveal(sor_moderator[v], {"yes", "no"}) : TRUE
               /\ lookup = "error" => mod = "yes"
               /\ k < Len(cs) => CanRaise(cs[k + 1], DryRunOf(cs))
               /\ faults + lf + (IF k < Len(cs) THEN 1 ELSE 0) <= MaxFaults
               /\ faults' = faults + lf + (IF k < Len(cs) THEN 1 ELSE 0)
               /\ fs' = RunCalls(fs, cs, k, DryRunOf(cs))
               /\ log' = log \o SubSeq(cs, 1, IF k < Len(cs) THEN k + 1 ELSE k)
               /\ sor_moderator' = IF k >= Len(cs) - 1
                                   THEN [sor_moderator EXCEPT ![v] = Known(mod)]
                                   ELSE sor_moderator
               /\ vo_cached' = TRUE
               /\ hist' = [hist EXCEPT !.vo_failed = @ \/ k < Len(cs),
                                       !.owner = IF k >= Len(cs) - 1 THEN owner ELSE @]
               /\ IF k < Len(cs)
                  THEN pc' = "vo_except" /\ UNCHANGED i
                  ELSE GotoPc(okpc)
               /\ UNCHANGED <<modified_members, j, account_cached>>
               /\ UNCHANGED <<args, caller, res, backend_dry_run, sor_status, sor_vo_quota,
                              sor_modified, sor_member_quota>>

\* vo.create_data_fileset()
CreateDataFileset ==
    /\ pc = "create_data_fileset"
    /\ CreateFileset(VSC_DATA, vo_id, vo_id, "none", "set_data_quota")

\* set_data_quota: the declared quota, or 16 MiB when it is 0
DataQuotaCalls(q) ==
    SetQuotaCalls(VSC_DATA, VoPath(VSC_DATA, vo_id), vo_id,
                  IF q.hard # 0 THEN q.hard ELSE 16 * 1024)

\* set_scratch_quota applying the hard value of the record whether there is one or not
ScratchQuotaCalls_NoDefault(q) ==
    SetQuotaCalls(storage_name, VoPath(storage_name, vo_id), vo_id, q.hard)

\* set_scratch_quota: the default VO quota of the storage when the VO has no
\* record for it, the hard value of the record otherwise
ScratchQuotaCalls(q) ==
    SetQuotaCalls(storage_name, VoPath(storage_name, vo_id), vo_id,
                  IF q.has THEN q.hard ELSE quota_vo)

\* set_scratch_quota, lines 387-390: more than one record for the storage is
\* logged and a bare raise follows (RuntimeError), before _set_quota
VoQuotaRaises(st, q) == st \in VSC_PRODUCTION_SCRATCH /\ q.many

\* the calls of set_data_quota, or of set_scratch_quota on a scratch storage
VoQuotaCalls(st, q) == IF st = VSC_DATA THEN DataQuotaCalls(q) ELSE ScratchQuotaCalls(q)

\* a step that fetches the VO's quota list and then issues the calls for the
\* quota record q of storage st (_institute_quota, then _set_quota)
SetVoQuota(st, recs, okpc) ==
    LET v == vo_id
    IN
    \/ \* the quota list cannot be fetched
       /\ RestRaises
       /\ VoRaise
       /\ UNCHANGED <<args, caller, vo_cached, res, backend_dry_run, sor>>
    \/ \E q \in Reveal(sor_vo_quota[<<v, st>>], recs) :
         LET cs == IF VoQuotaRaises(st, q) THEN <<>> ELSE VoQuotaCalls(st, q)
         IN  \E k \in 0..Len(cs) :
               /\ Issue(cs, k)
               /\ sor_vo_quota' = [sor_vo_quota EXCEPT ![<<v, st>>] = Known(q)]
               /\ IF k < Len(cs) \/ VoQuotaRaises(st, q)
                  THEN VoRaise
                  ELSE /\ GotoPc(okpc)
                       /\ UNCHANGED <<modified_members, j, account_cached, hist>>
               /\ UNCHANGED <<args, caller, vo_cached, res, backend_dry_run, sor_status,
                              sor_moderator, sor_modified, sor_member_quota>>

\* vo.set_data_quota()
SetDataQuota ==
    /\ pc = "set_data_quota"
    /\ SetVoQuota(VSC_DATA, VoQuotaRecs, "update_vo_status")

\* update_vo_status without the dry_run test of line 542
ShouldPatch_IgnoresDryRun(dry, status) == status \in {STATUS_NEW, MODIFIED, MODIFY}

\* update_vo_status: is a PATCH of the status to ACTIVE requested
ShouldPatch(dry, status) == ~dry /\ status \in {STATUS_NEW, MODIFIED, MODIFY}

PatchCall(v) == Call("PATCH", "accountpage", [st |-> "vo", vo |-> v, member |-> 0],
                     [status |-> ACTIVE])

\* the exception that leaves update_vo_status.  After an HTTPError line 555
\* builds the message with two conversions ('%s', '%d') from the one value
\* err.code: the % operator raises TypeError and no VoStatusUpdateError is
\* made.  A response that is not ACTIVE raises UserStatusUpdateError (line 562).
StatusException(out) ==
    IF out = "http_error" THEN "TypeError" ELSE "UserStatusUpdateError"

\* update_vo_status(vo)
UpdateVoStatus ==
    /\ pc = "update_vo_status"
    /\ \E s \in Reveal(sor_status[vo_id], Status) :
         IF ~ShouldPatch(dry_run, s)
         THEN /\ sor_status' = [sor_status EXCEPT ![vo_id] = Known(s)]
              /\ hist' = [hist EXCEPT !.status = s]
              /\ GotoPc(AfterDataPc(vo_id))
              /\ UNCHANGED <<modified_members, j, account_cached, log, faults>>
         ELSE \E out \in {"active", "http_error", "not_active"} :
                /\ log' = log \o <<PatchCall(vo_id)>>
                /\ IF out = "active"
                   THEN /\ sor_status' = [sor_status EXCEPT ![vo_id] = Known(ACTIVE)]
                        /\ hist' = [hist EXCEPT !.patches = @ + 1, !.status = s,
                                                !.patch_out = out]
                        /\ GotoPc(AfterDataPc(vo_id))
                        /\ UNCHANGED <<modified_members, j, account_cached, faults>>
                   ELSE /\ sor_status' = [sor_status EXCEPT ![vo_id] = Known(s)]
                        /\ faults < MaxFaults
                        /\ faults' = faults + 1
                        /\ pc' = "vo_except"
                        /\ hist' = [hist EXCEPT !.vo_failed = TRUE, !.patches = @ + 1,
                                                !.status = s, !.patch_out = out,
                                                !.exc = StatusException(out)]
                        /\ UNCHANGED <<i, modified_members, j, account_cached>>
    /\ UNCHANGED <<args, caller, vo_cached, res, fs, backend_dry_run, sor_moderator,
                   sor_vo_quota, sor_modified, sor_member_quota>>

\* vo.data_sharing: does the VO have a quota on the shared data storage
CheckDataSharing ==
    /\ pc = "check_data_sharing"
    /\ \/ \* the VO record or the quota list cannot be fetched
          /\ RestRaises
          /\ VoRaise
          /\ UNCHANGED <<vo_cached, sor_vo_quota>>
       \/ \E q \in Reveal(sor_vo_quota[<<vo_id, VSC_DATA_SHARED>>], VoSharedQuotaRecs) :
            /\ sor_vo_quota' = [sor_vo_quota EXCEPT ![<<vo_id, VSC_DATA_SHARED>>] = Known(q)]
            /\ vo_cached' = TRUE
            /\ GotoPc(IF q.has THEN "create_data_shared_fileset" ELSE AfterSharedPc(vo_id))
            /\ UNCHANGED <<modified_members, j, account_cached, hist, fs, log, faults>>
    /\ UNCHANGED <<args, caller, res, backend_dry_run, sor_status, sor_moderator,
                   sor_modified, sor_member_quota>>

\* vo.create_data_shared_fileset(): the sharing group is fetched first
CreateDataSharedFileset ==
    /\ pc = "create_data_shared_fileset"
    /\ \/ \* the autogroup of the sharing group cannot be fetched
          /\ RestRaises
          /\ VoRaise
          /\ UNCHANGED <<args, caller, vo_cached, res, backend_dry_run, sor>>
       \/ CreateFileset(VSC_DATA_SHARED, SharingGroup(vo_id), SharingGroup(vo_id),
                        "none", "set_data_shared_quota")

\* set_data_shared_quota: nothing is set for a quota of 0
DataSharedQuotaCalls(q) ==
    IF q.hard # 0
    THEN SetQuotaCalls(VSC_DATA_SHARED, VoPath(VSC_DATA_SHARED, vo_id),
                       SharingGroup(vo_id), q.hard)
    ELSE <<>>

\* vo.set_data_shared_quota() (the quota is cached by vo.data_sharing)
SetDataSharedQuota ==
    /\ pc = "set_data_shared_quota"
    /\ LET cs == DataSharedQuotaCalls(sor_vo_quota[<<vo_id, VSC_DATA_SHARED>>].val)
       IN  \E k \in 0..Len(cs) :
             /\ Issue(cs, k)
             /\ IF k < Len(cs)
                THEN VoRaise
                ELSE /\ GotoPc(AfterSharedPc(vo_id))
                     /\ UNCHANGED <<modified_members, j, account_cached, hist>>
    /\ UNCHANGED <<args, caller, vo_cached, res, backend_dry_run, sor>>

\* the parent fileset handed to make_fileset on a GPFS older than 3.5.0.0
ScratchParent(st) ==
    IF StorageBackend(st) = "gpfs" /\ storage_conf[st].old THEN "root" ELSE "none"

\* vo.create_scratch_fileset(storage_name)
CreateScratchFileset ==
    /\ pc = "create_scratch_fileset"
    /\ CreateFileset(storage_name, vo_id, vo_id, ScratchParent(storage_name),
                     "set_scratch_quota")

\* vo.set_scratch_quota(storage_name)
SetScratchQuota ==
    /\ pc = "set_scratch_quota"
    /\ SetVoQuota(storage_name, VoScratchQuotaRecs, AfterScratchPc(vo_id))

\* the member list walked without the "modified since" filter: all members
ModifiedMembers_AllMembers(v, answer) == VoMembers(v)

\* modified_members: one member object per entry of the answer of the
\* "modified since" query, in the order of the answer
ModifiedMembers(v, answer) == answer

\* client.vo[vo.vo_id].member.modified[datestamp].get() and the member objects
FetchModifiedMembers ==
    /\ pc = "fetch_members"
    /\ \/ /\ RestRaises
          /\ VoRaise
          /\ UNCHANGED sor_modified
       \/ \E ms \in Reveal(sor_modified[vo_id], ModifiedLists(vo_id)) :
            /\ sor_modified' = [sor_modified EXCEPT ![vo_id] = Known(ms)]
            /\ modified_members' = ModifiedMembers(vo_id, ms)
            /\ j' = 1
            /\ account_cached' = FALSE
            /\ hist' = [hist EXCEPT !.fetched = TRUE]
            /\ pc' = IF modified_members' = <<>> THEN "loop" ELSE MemberEntryPc
            /\ i' = IF modified_members' = <<>> THEN i + 1 ELSE i
            /\ UNCHANGED <<fs, log, faults>>
    /\ UNCHANGED <<args, caller, vo_cached, res, backend_dry_run, sor_status, sor_moderator,
                   sor_vo_quota, sor_member_quota>>

\* set_member_data_quota takes quota[0] of the records left by the filter of
\* line 441 without testing that one is left (set_member_scratch_quota tests it)
MemberQuotaIndexError(st, q) == st = VSC_DATA /\ q.others

\* a member step that fetches the member's quota records for storage st and
\* sets the member's quota in the VO fileset
SetMemberQuota(st, okpc) ==
    LET v == vo_id
        m == member
    IN
    \/ \* the member's quota records, or the member's account, cannot be fetched
       /\ RestRaises
       /\ MemberRaise
       /\ UNCHANGED <<account_cached, sor_member_quota>>
    \/ \E q \in Reveal(sor_member_quota[<<m, st>>], MemberQuotaRecs) :
         LET cs == IF q.has THEN SetMemberQuotaCalls(st, VoPath(st, v), m, q.hard) ELSE <<>>
         IN  \E k \in 0..Len(cs) :
               /\ Issue(cs, k)
               /\ sor_member_quota' = [sor_member_quota EXCEPT ![<<m, st>>] = Known(q)]
               /\ account_cached' = TRUE
               /\ IF k < Len(cs) \/ MemberQuotaIndexError(st, q)
                  THEN MemberRaise
                  ELSE /\ pc' = okpc
                       /\ MemberQuotaReturned
                       /\ UNCHANGED <<i, modified_members, j>>

\* vo.set_member_data_quota(member)
SetMemberDataQuota ==
    /\ pc = "set_member_data_quota"
    /\ IF sor_vo_quota[<<vo_id, VSC_DATA>>].val.hard = 0
       THEN \* no VO data quota: a warning naming the member, nothing is set
            /\ account_cached' = TRUE
            /\ pc' = "create_member_data_dir"
            /\ MemberQuotaReturned
            /\ UNCHANGED <<i, modified_members, j, fs, log, faults, sor_member_quota>>
       ELSE SetMemberQuota(VSC_DATA, "create_member_data_dir")
    /\ UNCHANGED <<args, caller, vo_cached, res, backend_dry_run, sor_status, sor_moderator,
                   sor_vo_quota, sor_modified>>

\* _create_member_dir through the backend of storage st
CreateMemberDir(st) ==
    \/ \* member.usergroup cannot be fetched
       /\ UsergroupRaises
       /\ MemberRaise
    \/ LET cs == CreateMemberDirCalls(st, MemberPath(st, vo_id, member), member)
       IN  \E k \in 0..Len(cs) :
             /\ Issue(cs, k)
             /\ IF k < Len(cs)
                THEN MemberRaise
                ELSE /\ pc' = "member_ok"
                     /\ UNCHANGED <<i, modified_members, j, hist>>

\* vo.create_member_data_dir(member)
CreateMemberDataDir ==
    /\ pc = "create_member_data_dir"
    /\ CreateMemberDir(VSC_DATA)
    /\ UNCHANGED <<args, caller, vo_cached, account_cached, res, backend_dry_run, sor>>

\* vo.set_member_scratch_quota(storage_name, member)
SetMemberScratchQuota ==
    /\ pc = "set_member_scratch_quota"
    /\ IF ~sor_vo_quota[<<vo_id, storage_name>>].val.has \/ vo_id \in DEFAULT_VOS_ALL
       THEN \* the VO has no scratch quota, or is a default VO: no member quota,
            \* a warning naming the member
            \/ /\ RestRaises
               /\ MemberRaise
               /\ UNCHANGED <<account_cached, sor_member_quota>>
            \/ /\ account_cached' = TRUE
               /\ pc' = "create_member_scratch_dir"
               /\ MemberQuotaReturned
               /\ UNCHANGED <<i, modified_members, j, fs, log, faults, sor_member_quota>>
       ELSE SetMemberQuota(storage_name, "create_member_scratch_dir")
    /\ UNCHANGED <<args, caller, vo_cached, res, backend_dry_run, sor_status, sor_moderator,
                   sor_vo_quota, sor_modified>>

\* vo.create_member_scratch_dir(storage_name, member): _create_member_dir is
\* handed VSC_PRODUCTION_SCRATCH (a mapping, not a storage name), and indexing
\* the storage dictionary with it raises before any backend call
CreateMemberScratchDir ==
    /\ pc = "create_member_scratch_dir"
    /\ MemberRaise
    /\ UNCHANGED <<args, caller, vo_cached, account_cached, res, fs, backend_dry_run, sor,
                   log, faults>>

\* the list recorded for a member: [member.account.vsc_id]
MemberEntry(m) == ListVal(<<m>>)
\* what line 633 records for a failed VO: vo.members, the bound method
VoFailureEntry(v) == MethodVal

\* ok_vos[vo.vo_id] = [member.account.vsc_id]
RecordMemberOk ==
    /\ pc = "member_ok"
    /\ \/ \* member.account cannot be fetched
          /\ AccountRaises
          /\ MemberRaise
          /\ UNCHANGED <<account_cached, ok_vos>>
       \/ LET r == MonoidDictSet(ok_vos, vo_id, MemberEntry(member))
          IN  /\ ~r.raised
              /\ ok_vos' = r.dict
              /\ hist' = [hist EXCEPT !.m_ok = @ \cup {j}]
              /\ NextMember
              /\ UNCHANGED <<modified_members, fs, log, faults>>
    /\ UNCHANGED <<args, caller, vo_cached, error_vos, backend_dry_run, sor>>

\* except Exception (line 627): error_vos[vo.vo_id] = [member.account.vsc_id]
MemberExcept ==
    /\ pc = "member_except"
    /\ \/ \* member.account cannot be fetched: the handler itself raises
          /\ AccountRaises
          /\ pc' = "vo_except"
          /\ hist' = [hist EXCEPT !.handler_raised = "HTTPError"]
          /\ UNCHANGED <<i, j, account_cached, error_vos>>
       \/ LET r == MonoidDictSet(error_vos, vo_id, MemberEntry(member))
          IN  IF r.raised
              THEN \* the monoid raises TypeError inside the handler
                   /\ pc' = "vo_except"
                   /\ hist' = [hist EXCEPT !.handler_raised = "TypeError"]
                   /\ UNCHANGED <<i, j, account_cached, error_vos, fs, log, faults>>
              ELSE /\ error_vos' = r.dict
                   /\ NextMember
                   /\ UNCHANGED <<hist, fs, log, faults>>
    /\ UNCHANGED <<args, caller, vo_cached, modified_members, ok_vos, backend_dry_run, sor>>

\* except Exception (line 631): error_vos[vo.vo_id] = vo.members
VoExcept ==
    /\ pc = "vo_except"
    /\ LET r == MonoidDictSet(error_vos, vo_id, VoFailureEntry(vo_id))
       IN  IF r.raised
           THEN \* TypeError in the handler: the exception leaves process_vos
                /\ pc' = "crashed"
                /\ UNCHANGED <<i, error_vos>>
           ELSE /\ error_vos' = r.dict
                /\ pc' = "loop"
                /\ i' = i + 1
    /\ UNCHANGED <<args, caller, vo_cached, modified_members, j, account_cached, ok_vos, fs,
                   backend_dry_run, sor, log, hist, faults>>

ProcessVos ==
    \/ NextVo
    \/ CreateDataFileset
    \/ SetDataQuota
    \/ UpdateVoStatus
    \/ CheckDataSharing
    \/ CreateDataSharedFileset
    \/ SetDataSharedQuota
    \/ CreateScratchFileset
    \/ SetScratchQuota
    \/ FetchModifiedMembers
    \/ SetMemberDataQuota
    \/ CreateMemberDataDir
    \/ SetMemberScratchQuota
    \/ CreateMemberScratchDir
    \/ RecordMemberOk
    \/ MemberExcept
    \/ VoExcept

Next == ProcessVos

Spec == Init /\ [][Next]_vars

\* process_vos called for a changeset of at most one VO, whose members may
\* lack a quota record of their own
InitOne == InitCall(FALSE, TRUE) /\ Len(vos) <= 1

SpecOne == InitOne /\ [][Next]_vars

\* process_vos called for a changeset of at most one VO, on a storage of any
\* configuration
InitConf == InitCall(TRUE, FALSE) /\ Len(vos) <= 1

SpecConf == InitConf /\ [][Next]_vars

\* ------------------------------------------- process_vos called a second time
\* process_vos returned and is called again with the same arguments; the
\* backends and the system of record are what the first call left
SecondPass ==
    /\ pc = "done"
    /\ pass = 1
    /\ pass' = 2
    /\ fs1' = fs
    /\ pc' = "loop"
    /\ i' = 1
    /\ ok_vos' = <<>>
    /\ error_vos' = <<>>
    /\ log' = <<>>
    /\ hist' = NoHist
    /\ UNCHANGED <<args, vo_cached, modified_members, j, account_cached, fs,
                   backend_dry_run, sor, faults, main, timestamp_file, sor_changed, slurm>>

NextTwice == ProcessVos \/ SecondPass

\* the two calls are followed for the changesets of at most one VO, whose
\* members have a quota record of their own
InitTwice == InitCall(FALSE, FALSE) /\ Len(vos) <= 1

SpecTwice == InitTwice /\ [][NextTwice]_vars

\* ----------------------------------------------- sync_ugent_vsc_users.main
\* opts.options.storage
StorageConfigs == {c \in SeqsUpTo(Storages, MaxStorages) : c # <<>> /\ Injective(c)}
\* what the accountpage may report as modified: at most one regular VO, and
\* at most one regular VO with a modified quota
ChangedVos == [vos : SeqsUpTo(RegularVos, 1), vo_quota : SeqsUpTo(RegularVos, 1),
               late : {<<>>}]
\* the VOs an external writer modified while a run was in progress, at or
\* after time ts.  Run r takes its `now` at time r and ends before time r + 1:
\* a modification made during run r was made at or after ts when r >= ts
LateVos(ts) ==
    LET w == SelectSeq(sor_changed.late, LAMBDA x : x.during >= ts)
    IN  [n \in 1..Len(w) |-> w[n].vo]
\* client.vo.modified[ts] and client.quota.vo.modified[ts]: the modifications
\* of sor_changed.vos and sor_changed.vo_quota were made at time 0, before the
\* first run; a modified VO is listed once
ModifiedSince(ts) ==
    LET early == IF ts = 0 THEN sor_changed.vos ELSE <<>>
    IN  [vos |-> early \o SelectSeq(LateVos(ts), LAMBDA v : v \notin Range(early)),
         vo_quota |-> IF ts = 0 THEN sor_changed.vo_quota ELSE <<>>]

\* the variables of a call of process_vos
callvars == <<ctl, res, log, hist>>

InitSync ==
    /\ vos = <<>>
    /\ storage_name = VSC_HOME
    /\ dry_run \in BOOLEAN
    /\ pc = "idle"
    /\ i = 1
    /\ vo_cached = FALSE
    /\ modified_members = <<>>
    /\ j = 0
    /\ account_cached = FALSE
    /\ ok_vos = <<>>
    /\ error_vos = <<>>
    /\ fs = EmptyFs
    /\ backend_dry_run = [st \in Storages |-> FALSE]
    /\ storage_conf = [st \in Storages |-> DefaultConf(st)]
    \* every VO awaits activation, has a moderator, a quota on every storage
    \* and one modified member
    /\ sor_status = [v \in VoIds |-> Known(MODIFIED)]
    /\ sor_moderator = [v \in VoIds |-> Known("yes")]
    /\ sor_vo_quota = [k \in VoIds \X Storages |-> Known(QuotaRec(5))]
    /\ sor_modified = [v \in VoIds |-> Known(<<Uid(v, 1)>>)]
    /\ sor_member_quota = [k \in (UNION {MembersOf(v) : v \in VoIds}) \X Storages |->
                              Known(QuotaRec(2))]
    /\ log = <<>>
    /\ hist = NoHist
    /\ faults = 0
    /\ pass = 1
    /\ fs1 = EmptyFs
    /\ \E c \in StorageConfigs, u, v \in BOOLEAN :
         main = [pc |-> "start", run |-> 1, storages |-> c, user |-> u, vo |-> v,
                 s |-> 1, now |-> 0, last_timestamp |-> 0,
                 users_fail |-> FALSE, vos_fail |-> FALSE, ugent_vos |-> <<>>,
                 failed |-> {}, users_failed |-> FALSE, prev_failed |-> {},
                 written |-> FALSE, ts0 |-> 0, stats |-> <<>>, exc |-> FALSE,
                 nagios |-> "", exit |-> ""]
    /\ timestamp_file = 0
    /\ sor_changed \in ChangedVos
    /\ sacct = NoSacct
    /\ slurm_sync = NoSlurmSync
    /\ vo_obj = NoVoObject

\* the exception is swallowed and the run goes on to its epilogue
Critical_Epilogue(m) == [m EXCEPT !.pc = "end", !.exc = TRUE]

\* an exception has left the try body; the except clause of line 159:
\* opts.critical, sys.exit(NAGIOS_EXIT_CRITICAL)
Critical(m) == [m EXCEPT !.pc = "exited", !.exc = TRUE, !.nagios = "critical",
                         !.exit = "NAGIOS_EXIT_CRITICAL"]

MainExit == main' = Critical(main)

\* lines 88-100: now, read_timestamp (or the default timestamp when it raises)
MainStart ==
    /\ main.pc = "start"
    /\ \E readable \in BOOLEAN :
         /\ ~readable => faults < MaxFaults
         /\ faults' = IF readable THEN faults ELSE faults + 1
         /\ main' = [main EXCEPT
                       !.now = main.run,
                       !.ts0 = timestamp_file,
                       !.last_timestamp = IF readable THEN timestamp_file ELSE 0,
                       !.users_fail = FALSE,
                       !.vos_fail = FALSE,
                       !.s = 1,
                       !.pc = IF main.user THEN "fetch_accounts"
                              ELSE IF main.vo THEN "fetch_vos" ELSE "finish"]
    /\ UNCHANGED <<args, callvars, fs, backend_dry_run, sor, pass, fs1, timestamp_file,
                   sor_changed, slurm>>

\* lines 102-108: the accounts modified since the timestamp
MainFetchAccounts ==
    /\ main.pc = "fetch_accounts"
    /\ \/ /\ faults < MaxFaults
          /\ faults' = faults + 1
          /\ MainExit
       \/ /\ main' = [main EXCEPT !.pc = "process_users", !.s = 1]
          /\ UNCHANGED faults
    /\ UNCHANGED <<args, callvars, fs, backend_dry_run, sor, pass, fs1, timestamp_file,
                   sor_changed, slurm>>

\* the position after the loop over the storages that ends at position p
AfterStorage(p, nextpc) ==
    [main EXCEPT !.s = IF main.s < Len(main.storages) THEN main.s + 1 ELSE 1,
                 !.pc = IF main.s < Len(main.storages) THEN p ELSE nextpc]

\* lines 110-118: (users_ok, users_fail) = process_users(...) for one storage
MainProcessUsers ==
    /\ main.pc = "process_users"
    /\ \E fail \in BOOLEAN :
         /\ fail => faults < MaxFaults
         /\ faults' = IF fail THEN faults + 1 ELSE faults
         /\ main' = [AfterStorage("process_users", "users_quota") EXCEPT
                       !.users_fail = fail,
                       !.users_failed = main.users_failed \/ fail]
    /\ UNCHANGED <<args, callvars, fs, backend_dry_run, sor, pass, fs1, timestamp_file,
                   sor_changed, slurm>>

\* lines 120-128: process_users_quota for one storage; its result is not kept
MainProcessUsersQuota ==
    /\ main.pc = "users_quota"
    /\ \/ /\ faults < MaxFaults
          /\ faults' = faults + 1
          /\ MainExit
       \/ /\ main' = AfterStorage("users_quota", IF main.vo THEN "fetch_vos" ELSE "finish")
          /\ UNCHANGED faults
    /\ UNCHANGED <<args, callvars, fs, backend_dry_run, sor, pass, fs1, timestamp_file,
                   sor_changed, slurm>>

\* lines 132-136: the modified VOs followed by the VOs with a modified quota
MainFetchVos ==
    /\ main.pc = "fetch_vos"
    /\ \/ /\ faults < MaxFaults
          /\ faults' = faults + 1
          /\ MainExit
       \/ /\ main' = [main EXCEPT
                        !.ugent_vos = ModifiedSince(main.last_timestamp).vos
                                      \o ModifiedSince(main.last_timestamp).vo_quota,
                        !.pc = "process_vos", !.s = 1]
          /\ UNCHANGED faults
    /\ UNCHANGED <<args, callvars, fs, backend_dry_run, sor, pass, fs1, timestamp_file,
                   sor_changed, slurm>>

\* line 145: process_vos is called for the storage main.storages[main.s]
MainCallProcessVos ==
    /\ main.pc = "process_vos"
    /\ pc = "idle"
    /\ vos' = Sorted(main.ugent_vos)
    /\ storage_name' = main.storages[main.s]
    /\ pc' = "loop"
    /\ i' = 1
    /\ main' = [main EXCEPT !.pc = "in_process_vos"]
    /\ UNCHANGED <<dry_run, storage_conf, vo_cached, modified_members, j, account_cached,
                   res, log, hist, fs, backend_dry_run, sor, faults, pass, fs1,
                   timestamp_file, sor_changed, slurm>>

\* lines 145-153: process_vos returned (vos_ok, vos_fail)
MainReturnProcessVos ==
    /\ main.pc = "in_process_vos"
    /\ pc = "done"
    /\ main' = [AfterStorage("process_vos", "finish") EXCEPT
                  !.vos_fail = (DOMAIN error_vos # {}),
                  !.failed = main.failed \cup DOMAIN error_vos,
                  !.stats = Put(main.stats, storage_name,
                                [vos_sync |-> Cardinality(DOMAIN ok_vos),
                                 vos_sync_fail |-> Cardinality(DOMAIN error_vos)])]
    /\ pc' = "idle"
    /\ i' = 1
    /\ vo_cached' = FALSE
    /\ modified_members' = <<>>
    /\ j' = 0
    /\ account_cached' = FALSE
    /\ ok_vos' = <<>>
    /\ error_vos' = <<>>
    /\ log' = <<>>
    /\ hist' = NoHist
    /\ UNCHANGED <<args, fs, backend_dry_run, sor, faults, pass, fs1, timestamp_file,
                   sor_changed, slurm>>

\* an exception left process_vos: it is caught at line 159
MainProcessVosRaised ==
    /\ main.pc = "in_process_vos"
    /\ pc = "crashed"
    /\ main' = Critical([main EXCEPT !.failed = main.failed \cup {vo_id}])
    /\ pc' = "idle"
    /\ i' = 1
    /\ vo_cached' = FALSE
    /\ modified_members' = <<>>
    /\ j' = 0
    /\ account_cached' = FALSE
    /\ ok_vos' = <<>>
    /\ error_vos' = <<>>
    /\ log' = <<>>
    /\ hist' = NoHist
    /\ UNCHANGED <<args, fs, backend_dry_run, sor, faults, pass, fs1, timestamp_file,
                   sor_changed, slurm>>

\* the timestamp is the time at which it is written (the run numbered run
\* ends before time run + 1)
Watermark_WhenWritten(now, run) == run + 1

\* lines 156-158: the timestamp written is `now`, taken at line 88
\* (convert_timestamp formats it to the second, which never moves it later)
Watermark(now, run) == now

\* line 155: is the new timestamp to be written
ShouldWriteTimestamp(users_fail, vos_fail, dry) == ~(users_fail \/ vos_fail) /\ ~dry

\* lines 155-158, 164: write the timestamp taken when the run started
MainFinish ==
    /\ main.pc = "finish"
    /\ IF ShouldWriteTimestamp(main.users_fail, main.vos_fail, dry_run)
       THEN \/ /\ timestamp_file' = Watermark(main.now, main.run)
               /\ main' = [main EXCEPT !.pc = "end", !.written = TRUE, !.nagios = "epilogue"]
               /\ UNCHANGED faults
            \/ \* write_timestamp raises
               /\ faults < MaxFaults
               /\ faults' = faults + 1
               /\ MainExit
               /\ UNCHANGED timestamp_file
       ELSE /\ main' = [main EXCEPT !.pc = "end", !.nagios = "epilogue"]
            /\ UNCHANGED <<timestamp_file, faults>>
    /\ UNCHANGED <<args, callvars, fs, backend_dry_run, sor, pass, fs1, sor_changed, slurm>>

\* the next scheduled run of the script
MainNextRun ==
    /\ main.pc \in {"end", "exited"}
    /\ main.run < MaxRuns
    /\ main' = [main EXCEPT !.pc = "start", !.run = main.run + 1, !.s = 1,
                            !.ugent_vos = <<>>, !.prev_failed = main.failed,
                            !.failed = {}, !.users_failed = FALSE, !.written = FALSE,
                            !.stats = <<>>, !.exc = FALSE, !.nagios = "", !.exit = ""]
    /\ UNCHANGED <<args, callvars, fs, backend_dry_run, sor, faults, pass, fs1,
                   timestamp_file, sor_changed, slurm>>

Main ==
    \/ MainStart
    \/ MainFetchAccounts
    \/ MainProcessUsers
    \/ MainProcessUsersQuota
    \/ MainFetchVos
    \/ MainCallProcessVos
    \/ MainReturnProcessVos
    \/ MainProcessVosRaised
    \/ MainFinish
    \/ MainNextRun

NextSync == ProcessVos \/ Main

SpecSync == InitSync /\ [][NextSync]_vars

\* the runs of the script for one storage
InitSyncOne == InitSync /\ Len(main.storages) = 1

SpecSyncOne == InitSyncOne /\ [][NextSync]_vars

\* ------------------------------------------- writers of the system of record
\* the accountpage is modified by someone else while a run is in progress: a
\* VO that was not modified so far is changed and awaits activation again
ExternalWrite ==
    /\ main.pc \notin {"none", "start", "end", "exited"}
    /\ Len(sor_changed.late) < MaxWrites
    /\ \E v \in RegularVos :
         /\ \A n \in DOMAIN sor_changed.late : sor_changed.late[n].vo # v
         /\ sor_changed' = [sor_changed EXCEPT
                               !.late = Append(@, [vo |-> v, during |-> main.run])]
         /\ sor_status' = [sor_status EXCEPT ![v] = Known(MODIFIED)]
    /\ UNCHANGED <<args, callvars, fs, backend_dry_run, sor_moderator, sor_vo_quota,
                   sor_modified, sor_member_quota, faults, pass, fs1, main, timestamp_file,
                   slurm>>

NextWriter == ProcessVos \/ Main \/ ExternalWrite

\* the runs of the script for one storage, with external writers
SpecWriter == InitSyncOne /\ [][NextWriter]_vars

\* -------------------------------------------------------- nothing is running
\* process_vos and sync_ugent_vsc_users.main are not called
Idle ==
    /\ vos = <<>>
    /\ storage_name = VSC_HOME
    /\ dry_run = FALSE
    /\ pc = "idle"
    /\ i = 1
    /\ vo_cached = FALSE
    /\ modified_members = <<>>
    /\ j = 0
    /\ account_cached = FALSE
    /\ ok_vos = <<>>
    /\ error_vos = <<>>
    /\ fs = EmptyFs
    /\ backend_dry_run = [st \in Storages |-> FALSE]
    /\ storage_conf = [st \in Storages |-> DefaultConf(st)]
    /\ sor_status = [v \in VoIds |-> Unread]
    /\ sor_moderator = [v \in VoIds |-> Unread]
    /\ sor_vo_quota = [k \in VoIds \X Storages |-> Unread]
    /\ sor_modified = [v \in VoIds |-> Unread]
    /\ sor_member_quota = [k \in (UNION {MembersOf(v) : v \in VoIds}) \X Storages |-> Unread]
    /\ log = <<>>
    /\ hist = NoHist
    /\ faults = 0
    /\ pass = 1
    /\ fs1 = EmptyFs
    /\ main = NoMain
    /\ timestamp_file = 0
    /\ sor_changed = NothingChanged

\* ------------------------------------------------------------ slurm/sacct.py
\* A string is a sequence of tokens: the separators below and the words
\* between them.
MaxLineLen == 2    \* tokens of a data line before its trailing whitespace
MaxLines == 2      \* data lines of a dump

Bar == "|"
Blank == " "
Newline == "NL"
\* Python's None as the value of a field
None == <<"None">>

SacctJobsFields == <<"JobID", "JobName", "Partition", "Account", "AllocCPUS", "State", "ExitCode">>
\* SacctTypes.jobs
jobs == "jobs"

\* what a call returns or raises
Return(x) == [exc |-> "", none |-> FALSE, val |-> x]
ReturnNone == [exc |-> "", none |-> TRUE, val |-> {}]
Raise(e) == [exc |-> e, none |-> FALSE, val |-> {}]
NoResult == [exc |-> "", none |-> TRUE, val |-> {}]

RECURSIVE Rstrip(_)
\* str.rstrip(): the string without its trailing whitespace
Rstrip(s) == IF s # <<>> /\ s[Len(s)] \in {Blank, Newline}
             THEN Rstrip(SubSeq(s, 1, Len(s) - 1)) ELSE s

RECURSIVE Split(_, _)
\* str.split(sep): the pieces between the separators, at least one piece
Split(s, sep) ==
    IF \E k \in DOMAIN s : s[k] = sep
    THEN LET k == CHOOSE n \in DOMAIN s : s[n] = sep /\ \A m \in 1..(n - 1) : s[m] # sep
         IN  <<SubSeq(s, 1, k - 1)>> \o Split(SubSeq(s, k + 1, Len(s)), sep)
    ELSE <<s>>

RECURSIVE Replace(_, _, _)
\* str.replace(old, new) for a one-token old
Replace(s, old, new) ==
    IF s = <<>> THEN <<>>
    ELSE <<IF Head(s) = old THEN new ELSE Head(s)>> \o Replace(Tail(s), old, new)

\* str.splitlines(): the lines, without a last empty piece
Splitlines(s) ==
    LET ps == Split(s, Newline)
    IN  IF ps[Len(ps)] = <<>> THEN SubSeq(ps, 1, Len(ps) - 1) ELSE ps

\* line 78: the column names of the header line
HeaderOf(line) ==
    LET ws == Split(Rstrip(line), Bar)
    IN  [k \in DOMAIN ws |-> Replace(Replace(ws[k], Blank, "_"), "%", "PCT_")]

\* dict(zip(header, fields)): zip stops at the shorter of the two, and a key
\* that occurs twice keeps its last value
ZipDict(header, fields) ==
    LET n == IF Len(header) < Len(fields) THEN Len(header) ELSE Len(fields)
    IN  [key \in {header[k] : k \in 1..n} |->
            fields[CHOOSE k \in 1..n : header[k] = key /\ \A m \in (k + 1)..n : header[m] # key]]

\* the keys of d that are no field of SlurmJobs
UnknownKeys(d) == {key \in DOMAIN d : \A f \in Range(SacctJobsFields) : key # <<f>>}

\* mkSlurmJobs: a SlurmJobs tuple from the dictionary; a field without a key
\* is None (namedtuple_with_defaults).  mkNamedTupleInstance is a library
\* function: handed a key that is no field it drops the key or raises
\* TypeError (sacct.strict)
mkSlurmJobs(d) ==
    IF sacct.strict /\ UnknownKeys(d) # {}
    THEN Raise("TypeError")
    ELSE Return([f \in Range(SacctJobsFields) |-> IF <<f>> \in DOMAIN d THEN d[<<f>>] ELSE None])

\* the fields taken in the order of SacctJobsFields, whatever the header says
parse_slurm_sacct_line_ByFieldOrder(header, line, info_type) ==
    mkSlurmJobs(ZipDict([k \in DOMAIN SacctJobsFields |-> <<SacctJobsFields[k]>>],
                        Split(line, Bar)))

\* the line split at the bars, zipped against the header, made a SlurmJobs
parse_slurm_sacct_line(header, line, info_type) ==
    LET fields == Split(line, Bar)
    IN  IF info_type = jobs
        THEN mkSlurmJobs(ZipDict(header, fields))
        ELSE Raise("SacctParseException")

RECURSIVE ParseLines_KeepsLast(_, _, _, _, _)
\* the loop keeping the record of the last line only
ParseLines_KeepsLast(header, lines, k, info_type, acct_info) ==
    IF k > Len(lines) THEN Return(acct_info)
    ELSE LET r == parse_slurm_sacct_line(header, Rstrip(lines[k]), info_type)
         IN  IF r.exc # "" THEN Raise(r.exc)
             ELSE ParseLines_KeepsLast(header, lines, k + 1, info_type, {r.val})

RECURSIVE ParseLines(_, _, _, _, _)
\* the loop of lines 80-91 from line k on; a SlurmJobs tuple has seven
\* fields and is true, so that every tuple is added
ParseLines(header, lines, k, info_type, acct_info) ==
    IF k > Len(lines) THEN Return(acct_info)
    ELSE LET r == parse_slurm_sacct_line(header, Rstrip(lines[k]), info_type)
         IN  IF r.exc # "" THEN Raise(r.exc)
             ELSE ParseLines(header, lines, k + 1, info_type, acct_info \cup {r.val})

\* lines[0] of an empty list raises IndexError
parse_slurm_sacct_dump(lines, info_type) ==
    IF lines = <<>> THEN Raise("IndexError")
    ELSE ParseLines(HeaderOf(lines[1]), lines, 2, info_type, {})

\* the text sacct prints for a user name it does not know
InvalidUserMsg == "sacct: error: Invalid user id: "
\* re.search("sacct: error: Invalid user id: %s" % user, contents)
InvalidUserReported(user, contents) ==
    \E k \in 1..(Len(contents) - 1) : contents[k] = InvalidUserMsg /\ contents[k + 1] = user

\* the query parsing whatever sacct printed, whatever its exit code
get_slurm_sacct_active_jobs_for_user_ParsesAnyway(exitcode, contents, invalid_user) ==
    IF contents = <<>>
    THEN IF invalid_user THEN ReturnNone ELSE Raise("SacctException")
    ELSE parse_slurm_sacct_dump(Splitlines(contents), "SacctJobsFields")

\* get_slurm_sacct_active_jobs_for_user, given what asyncloop returned and
\* whether the contents name the user as invalid; line 109 hands SacctJobsFields,
\* the list of field names, to parse_slurm_sacct_dump as the record type
get_slurm_sacct_active_jobs_for_user(exitcode, contents, invalid_user) ==
    IF exitcode # 0
    THEN IF invalid_user THEN ReturnNone ELSE Raise("SacctException")
    ELSE parse_slurm_sacct_dump(Splitlines(contents), "SacctJobsFields")

\* the inputs: data lines, header lines, dumps, record-type selectors
\* a data line: values and bars, with or without a blank at its end
DataLines == {body \o tail : body \in SeqsUpTo({"1", Bar}, MaxLineLen), tail \in {<<>>, <<Blank>>}}
Headers == {<<"JobID", Bar, "State">>, <<"State", Bar, "JobID">>, <<"JobID">>,
            <<"JobID", Bar, "Alloc", Blank, "%", "CPUS", Blank>>}
\* the dumps with header line h, and the empty list of lines
DumpsOf(h) == {<<>>} \cup {<<h>> \o ls : ls \in SeqsUpTo(DataLines, MaxLines)}
Dumps == {<<>>} \cup {<<h>> \o ls : h \in Headers, ls \in SeqsUpTo(DataLines, MaxLines)}
InfoTypes == {jobs, "doesnotexist"}
RECURSIVE Join(_)
\* the output of the query: every line followed by a newline
Join(lines) == IF lines = <<>> THEN <<>> ELSE Head(lines) \o <<Newline>> \o Join(Tail(lines))
\* the library's answers to a key that is no field, where the header has one
Stricts(lines) ==
    IF lines # <<>> /\ \E k \in DOMAIN HeaderOf(lines[1]) :
                          \A f \in Range(SacctJobsFields) : HeaderOf(lines[1])[k] # <<f>>
    THEN BOOLEAN ELSE {FALSE}

\* the user the query is made for
SacctUser == "vsc40001"
\* what sacct may have printed for the user when it exits non-zero: nothing,
\* that the user name is invalid (after other lines or not), another error,
\* or another error after a part of the dump
ErrorOutputs(user) ==
    {<<>>,
     <<InvalidUserMsg, user, Newline>>,
     <<"sacct: error: Problem talking to the database", Newline, InvalidUserMsg, user, Newline>>,
     <<"sacct: error: Problem talking to the database", Newline>>,
     Join(<<<<"JobID", Bar, "State">>, <<"1", Bar, "1">>>>)
        \o <<"sacct: error: Problem talking to the database", Newline>>}

InitSacct ==
    /\ Idle
    /\ slurm_sync = NoSlurmSync
    /\ vo_obj = NoVoObject
    \* record type jobs is followed for every dump, an unknown record type
    \* and the query for the dumps with the header JobID|State
    /\ \/ \E lines \in Dumps, info_type \in InfoTypes, strict \in BOOLEAN :
            /\ strict \in Stricts(lines)
            /\ IF info_type = jobs \/ lines = <<>> THEN TRUE
               ELSE lines[1] = <<"JobID", Bar, "State">>
            /\ sacct = [call |-> "parse_slurm_sacct_dump", pc |-> "call", lines |-> lines, info_type |-> info_type,
                        exitcode |-> 0, contents |-> <<>>, invalid_user |-> FALSE,
                        strict |-> strict, result |-> NoResult]
       \/ \E lines \in DumpsOf(<<"JobID", Bar, "State">>), strict \in BOOLEAN :
            /\ strict \in Stricts(lines)
            /\ sacct = [call |-> "get_slurm_sacct_active_jobs_for_user", pc |-> "call", lines |-> <<>>,
                        info_type |-> "", exitcode |-> 0, contents |-> Join(lines),
                        invalid_user |-> FALSE, strict |-> strict, result |-> NoResult]
       \/ \E contents \in ErrorOutputs(SacctUser) :
            sacct = [call |-> "get_slurm_sacct_active_jobs_for_user", pc |-> "call", lines |-> <<>>,
                     info_type |-> "", exitcode |-> 1, contents |-> contents,
                     invalid_user |-> FALSE, strict |-> FALSE, result |-> NoResult]

\* parse_slurm_sacct_dump(lines, info_type)
ParseSlurmSacctDump ==
    /\ sacct.pc = "call" /\ sacct.call = "parse_slurm_sacct_dump"
    /\ sacct' = [sacct EXCEPT !.pc = "done",
                              !.result = parse_slurm_sacct_dump(sacct.lines, sacct.info_type)]
    /\ UNCHANGED <<args, ctl, res, fs, backend_dry_run, sor, log, hist, faults,
                   pass, fs1, main, timestamp_file, sor_changed, slurm_sync, vo_obj>>

\* get_slurm_sacct_active_jobs_for_user(user)
GetSlurmSacctActiveJobsForUser ==
    /\ sacct.pc = "call" /\ sacct.call = "get_slurm_sacct_active_jobs_for_user"
    /\ sacct' = [sacct EXCEPT
                   !.pc = "done",
                   !.lines = IF sacct.exitcode = 0 THEN Splitlines(sacct.contents) ELSE <<>>,
                   !.invalid_user = InvalidUserReported(SacctUser, sacct.contents),
                   !.result = get_slurm_sacct_active_jobs_for_user(
                                  sacct.exitcode, sacct.contents,
                                  InvalidUserReported(SacctUser, sacct.contents))]
    /\ UNCHANGED <<args, ctl, res, fs, backend_dry_run, sor, log, hist, faults,
                   pass, fs1, main, timestamp_file, sor_changed, slurm_sync, vo_obj>>

NextSacct == ParseSlurmSacctDump \/ GetSlurmSacctActiveJobsForUser

SpecSacct == InitSacct /\ [][NextSacct]_vars

\* ------------------------------------------------------ sync_slurm_acct.main
MaxCommands == 3   \* length of sacctmgr_commands

\* the commands a list is made of
CommandKinds == {"add_account", "add_user", "modify_user"}
\* sacctmgr_commands: what slurm_institute_accounts, slurm_vo_accounts and
\* slurm_user_accounts return, concatenated
CommandLists == SeqsUpTo(CommandKinds, MaxCommands)

\* execute_commands goes on to the next command whatever the exit code
AfterCommandPc_IgnoresExit(ec) == "execute_commands"

\* lines 57-59: a non-zero exit code raises SacctMgrException, which leaves
\* execute_commands and is caught at line 143
AfterCommandPc(ec) == IF ec # 0 THEN "except" ELSE "execute_commands"

InitSlurmSync ==
    /\ Idle
    /\ sacct = NoSacct
    /\ vo_obj = NoVoObject
    /\ \E cs \in CommandLists, dry \in BOOLEAN :
         slurm_sync = [pc |-> "start", dry_run |-> dry, sacctmgr_commands |-> cs,
                       k |-> 1, ran |-> <<>>, slurm_db |-> <<>>,
                       nagios |-> "", exit |-> ""]

\* lines 104-136: the client, the accounts and users known to slurm, the VOs
\* and accounts of the account page, the commands; any of these may raise
SlurmCollect ==
    /\ slurm_sync.pc = "start"
    /\ \E raises \in BOOLEAN :
         slurm_sync' = [slurm_sync EXCEPT
                          !.pc = IF raises THEN "except"
                                 ELSE IF slurm_sync.dry_run THEN "print"
                                 ELSE "execute_commands"]
    /\ UNCHANGED <<args, ctl, res, fs, backend_dry_run, sor, log, hist, faults,
                   pass, fs1, main, timestamp_file, sor_changed, sacct, vo_obj>>

\* lines 138-140: a dry run prints the commands
SlurmPrintCommands ==
    /\ slurm_sync.pc = "print"
    /\ slurm_sync' = [slurm_sync EXCEPT !.pc = "after"]
    /\ UNCHANGED <<args, ctl, res, fs, backend_dry_run, sor, log, hist, faults,
                   pass, fs1, main, timestamp_file, sor_changed, sacct, vo_obj>>

\* execute_commands: one turn of the loop, RunQA.run of the command at k; a
\* command that exits with 0 has changed the accounting database
ExecuteCommands ==
    /\ slurm_sync.pc = "execute_commands"
    /\ IF slurm_sync.k > Len(slurm_sync.sacctmgr_commands)
       THEN slurm_sync' = [slurm_sync EXCEPT !.pc = "after"]
       ELSE \E ec \in {0, 1} :
              LET command == slurm_sync.sacctmgr_commands[slurm_sync.k]
              IN  slurm_sync' = [slurm_sync EXCEPT
                                   !.ran = Append(@, [command |-> command, ec |-> ec]),
                                   !.slurm_db = IF ec = 0 THEN Append(@, command) ELSE @,
                                   !.k = @ + 1,
                                   !.pc = AfterCommandPc(ec)]
    /\ UNCHANGED <<args, ctl, res, fs, backend_dry_run, sor, log, hist, faults,
                   pass, fs1, main, timestamp_file, sor_changed, sacct, vo_obj>>

\* lines 143-146: opts.critical and sys.exit(NAGIOS_EXIT_CRITICAL)
SlurmExcept ==
    /\ slurm_sync.pc = "except"
    /\ slurm_sync' = [slurm_sync EXCEPT !.pc = "exited", !.nagios = "critical",
                                        !.exit = "NAGIOS_EXIT_CRITICAL"]
    /\ UNCHANGED <<args, ctl, res, fs, backend_dry_run, sor, log, hist, faults,
                   pass, fs1, main, timestamp_file, sor_changed, sacct, vo_obj>>

\* lines 148-151: the epilogue, or "Dry run done"
SlurmEpilogue ==
    /\ slurm_sync.pc = "after"
    /\ slurm_sync' = [slurm_sync EXCEPT
                        !.pc = "finished",
                        !.nagios = IF slurm_sync.dry_run THEN "" ELSE "ok"]
    /\ UNCHANGED <<args, ctl, res, fs, backend_dry_run, sor, log, hist, faults,
                   pass, fs1, main, timestamp_file, sor_changed, sacct, vo_obj>>

NextSlurmSync ==
    SlurmCollect \/ SlurmPrintCommands \/ ExecuteCommands \/ SlurmExcept \/ SlurmEpilogue

SpecSlurmSync == InitSlurmSync /\ [][NextSlurmSync]_vars

\* ------------------------------------------------ properties of process_vos
\* the loop body of a VO has ended (normally, by `continue`, or in a handler)
VoEnded == pc \in {"loop", "done"} /\ i > 1
EndedVo == vos[i - 1]
\* the VO that hist and log are about
HistVo == IF pc \in {"loop", "done"} THEN vos[i - 1] ELSE vos[i]

RECURSIVE Pick(_, _, _)
\* the members at the positions S of the first n of ms, in order
Pick(ms, S, n) ==
    IF n = 0 THEN <<>>
    ELSE Pick(ms, S, n - 1) \o (IF n \in S THEN <<ms[n]>> ELSE <<>>)
OkMembers == Pick(modified_members, hist.m_ok, Len(modified_members))
RaisedMembers == Pick(modified_members, hist.m_raised, Len(modified_members))
AllMembers == 1..Len(modified_members)

NumCalls(op) == Count(log, LAMBDA c : c.op = op)
UserQuotaCalls(m) == Count(log, LAMBDA c : c.op = "set_user_quota" /\ c.arg.user = m)
MemberDirCalls(m) == Count(log, LAMBDA c : c.op = "create_stat_directory" /\ c.arg.uid = m)
OpsOf(cs) == [k \in DOMAIN cs |-> cs[k].op]

\* C1: when the provisioning of one modified member raises, only that member
\* is appended to failed[VO], every other modified member of the VO is still
\* processed, and every remaining VO is still processed (the run is not
\* aborted).  Stated for the members whose account record the handler of
\* line 627 can read.
C1_MemberFailureIsolated ==
    /\ (hist.m_raised # {} /\ ~hist.vo_failed /\ hist.handler_raised # "HTTPError") =>
          pc # "crashed"
    /\ (VoEnded /\ hist.m_raised # {} /\ ~hist.vo_failed
           /\ hist.handler_raised # "HTTPError") =>
          /\ hist.m_ok \cup hist.m_raised = AllMembers
          /\ MonoidDictGet(error_vos, EndedVo) = ListVal(hist.err0.items \o RaisedMembers)

\* C2: when a VO-level step raises, the VO is recorded in the failed map with
\* its full member list, none of its members is provisioned, and the loop
\* moves on to the next VO.
C2_VoFailureRecordsMemberList ==
    (VoEnded /\ hist.vo_failed) =>
        /\ MonoidDictGet(error_vos, EndedVo) = ListVal(hist.err0.items \o VoMembers(EndedVo))
        /\ hist.m_ok = {} /\ hist.m_raised = {}

\* C3: no exception raised while provisioning a VO or a member leaves
\* process_vos: it walks all VOs and returns the two maps.
C3_NoExceptionEscapes == pc # "crashed"

\* C4 (as stated): a VO whose VO-level steps all succeeded is a key of the ok
\* map even when all of its modified members failed.
C4_OkKeyDespiteMemberFailures ==
    (VoEnded /\ ~hist.vo_failed /\ hist.fetched /\ hist.handler_raised = "no"
        /\ hist.m_raised # {}) => EndedVo \in DOMAIN ok_vos

\* C4 (amended): a VO whose VO-level steps all succeeded is a key of the ok
\* map exactly when one of its modified members was provisioned without
\* raising (in this or in an earlier occurrence of the VO); ok[VO] gains the
\* members that were provisioned, in order, member failures remove nothing,
\* and failed[VO], while it is a list, gains exactly the members whose own
\* provisioning raised.
C4_OkKeyIffMemberProvisioned ==
    (VoEnded /\ ~hist.vo_failed /\ hist.fetched) =>
        /\ EndedVo \in DOMAIN ok_vos <=> (hist.m_ok # {} \/ hist.ok0.items # <<>>)
        /\ MonoidDictGet(ok_vos, EndedVo) = ListVal(hist.ok0.items \o OkMembers)
        /\ MonoidDictGet(error_vos, EndedVo).kind = "list" =>
              MonoidDictGet(error_vos, EndedVo).items = hist.err0.items \o RaisedMembers

C4_Witness ==
    /\ VoEnded /\ ~hist.vo_failed /\ hist.fetched
    /\ hist.m_raised # {} /\ hist.m_ok # {}
    /\ EndedVo \in DOMAIN ok_vos /\ EndedVo \in DOMAIN error_vos

\* C5: the scenario of one non-default VO with two modified members on
\* VSC_DATA, the fileset absent at the start and one quota record per member
C5_Scenario ==
    /\ pc = "done" /\ Len(vos) = 1 /\ vos[1] \in RegularVos
    /\ storage_name = VSC_DATA
    /\ Len(modified_members) = 2
    /\ ~hist.vo_failed /\ hist.handler_raised = "no"
    /\ \A k \in 1..2 : /\ sor_member_quota[<<modified_members[k], VSC_DATA>>].known
                       /\ sor_member_quota[<<modified_members[k], VSC_DATA>>].val.has

\* the creation of the directory of the second member raised, nothing else
C5_SecondDirFails ==
    /\ hist.m_raised = {2}
    /\ MemberDirCalls(modified_members[2]) = 1

\* C5: in that scenario process_vos issues one fileset creation, one chown and
\* one fileset-quota call, and per member one user-quota call and one
\* directory creation; the result is ok = {VO: [m1, m2]} and failed empty, or,
\* when the directory creation of the second member raises, ok = {VO: [m1]}
\* and failed = {VO: [m2]}.
C5_NominalRun ==
    (C5_Scenario /\ (hist.m_raised = {} \/ C5_SecondDirFails)) =>
        LET v == vos[1]
            m1 == modified_members[1]
            m2 == modified_members[2]
        IN  /\ NumCalls("make_fileset") = 1
            /\ NumCalls("chown") = 1
            /\ NumCalls("set_fileset_quota") = 1
            /\ \A m \in {m1, m2} : UserQuotaCalls(m) = 1 /\ MemberDirCalls(m) = 1
            /\ IF hist.m_raised = {}
               THEN /\ ok_vos = (v :> ListVal(<<m1, m2>>))
                    /\ DOMAIN error_vos = {}
               ELSE /\ ok_vos = (v :> ListVal(<<m1>>))
                    /\ error_vos = (v :> ListVal(<<m2>>))

C5_Witness == C5_Scenario /\ C5_SecondDirFails /\ ~dry_run

\* the backend calls a run on VSC_DATA makes for a VO whose fileset is absent
\* and that has n modified members, when no call raises
RECURSIVE MemberOps(_)
MemberOps(n) ==
    IF n = 0 THEN <<>> ELSE MemberOps(n - 1) \o <<"set_user_quota", "create_stat_directory">>
DataOps(n) ==
    <<"list_filesets", "get_fileset_info", "make_dir", "make_fileset", "chmod", "chown",
      "set_fileset_quota", "set_fileset_grace">> \o MemberOps(n)

\* C7: under dry_run process_vos sends no PATCH to the system of record and
\* changes nothing on the storage backends, while it makes the same reads and
\* computations (every backend call is still worked out and handed to the
\* backend, every modified member is handled) and returns normally.  The
\* calls are compared for the members that have a quota record of their own;
\* a VO with several scratch quota records for the storage fails in
\* set_scratch_quota with or without dry_run.
C7_DryRunChangesNothing ==
    dry_run =>
        /\ fs = EmptyFs
        /\ hist.patches = 0 /\ NumCalls("PATCH") = 0
        /\ faults = 0 => pc # "crashed"
        /\ (faults = 0 /\ \A k \in DOMAIN sor_vo_quota :
                              sor_vo_quota[k].known => ~sor_vo_quota[k].val.many) =>
              pc # "vo_except"
        /\ (VoEnded /\ faults = 0 /\ storage_name = VSC_DATA /\ EndedVo \in RegularVos
               /\ \A k \in DOMAIN modified_members :
                     sor_member_quota[<<modified_members[k], VSC_DATA>>].val.has) =>
              /\ hist.fetched /\ hist.m_ok = AllMembers
              /\ OpsOf(log) = DataOps(Len(modified_members))

C7_Witness ==
    /\ dry_run /\ VoEnded /\ pc = "done" /\ faults = 0 /\ storage_name = VSC_DATA
    /\ EndedVo \in RegularVos /\ Len(modified_members) = 2
    /\ hist.status = MODIFIED
    /\ Len(log) = Len(DataOps(2))

C9_TimestampOnlyAfterSuccess == main.written => main.failed = {}

\* C10: a VO that failed in one run (itself, or one of its members) is
\* selected again by the next scheduled run: it is still among the VOs the
\* accountpage reports as modified since the timestamp.
C10_FailedVoSelectedAgain ==
    (main.run > 1 /\ main.pc = "process_vos" /\ main.s = 1) =>
        main.prev_failed \subseteq Range(main.ugent_vos)

\* ------------------------------------------------------ quota that is applied
\* the quota handed to _set_quota for the fileset of VO v on storage st
DeclaredVoQuota(v, st) ==
    LET q == sor_vo_quota[<<v, st>>].val.hard
    IN  IF st = VSC_DATA /\ q = 0 THEN 16 * 1024 ELSE q
\* the quota handed to _set_member_quota for member m on storage st
DeclaredMemberQuota(m, st) == sor_member_quota[<<m, st>>].val.hard

\* the limits of the call c are those of the declared quota q (KiB)
LimitsOf(c, q) ==
    /\ c.arg.hard = q * 1024 * (IF storage_conf[c.st].backend = "gpfs"
                                THEN ReplicationFactor(c.st) ELSE 1)
    /\ c.arg.soft * 100 <= c.arg.hard * 95
    /\ c.arg.hard * 95 < (c.arg.soft + 1) * 100
    /\ c.arg.soft <= c.arg.hard

C12_NoRecordIsNotAFailure ==
    \A k \in DOMAIN modified_members :
        LET m == modified_members[k]
            q == sor_member_quota[<<m, VSC_DATA>>]
        IN  (storage_name = VSC_DATA /\ faults = 0 /\ q.known) =>
                /\ q.val.has =>
                      \A c \in DOMAIN log :
                          (log[c].op = "set_user_quota" /\ log[c].arg.user = m) =>
                              LimitsOf(log[c], q.val.hard)
                /\ ~q.val.has =>
                      /\ UserQuotaCalls(m) = 0
                      /\ k \notin hist.m_raised
                      /\ k \in hist.m_ok => MemberDirCalls(m) = 1

\* C13: for each modified member of a VO processed on a production scratch
\* storage S, create_member_scratch_dir creates <VO scratch path on S>/<member>
\* through the backend of S, owned by the member (uid and usergroup gid, mode
\* 0700); when the backend reports no error the member is appended to ok[VO].
C13_MemberScratchDirCreated ==
    (storage_name \in VSC_PRODUCTION_SCRATCH /\ faults = 0 /\ VoEnded
        /\ hist.fetched /\ ~hist.vo_failed) =>
        /\ \A k \in DOMAIN modified_members :
              \E c \in DOMAIN log :
                  log[c] = Call("create_stat_directory", storage_name,
                                MemberPath(storage_name, EndedVo, modified_members[k]),
                                [mode |-> MEMBER_DIR_MODE, uid |-> modified_members[k],
                                 gid |-> modified_members[k]])
        /\ hist.m_ok = AllMembers
        /\ MonoidDictGet(ok_vos, EndedVo) = ListVal(hist.ok0.items \o modified_members)

\* a VO has been taken from the list: HistVo is defined
VoTaken == pc \in {"loop", "done"} => i > 1

\* C14: on VSC_HOME no fileset, quota, status or member operation is performed
\* for any VO; for a default VO on home or data storage no member is processed
\* and none is added to ok or failed.  (On these two storages the VO-level
\* fileset of a default VO is excluded as well, lines 584 and 587.)
C14_SkipRules ==
    /\ storage_name = VSC_HOME =>
          /\ log = <<>> /\ fs = EmptyFs /\ faults = 0
          /\ hist.patches = 0 /\ ~hist.fetched
          /\ ok_vos = <<>> /\ error_vos = <<>>
          /\ \A v \in VoIds : sor_status[v] = Unread /\ sor_modified[v] = Unread
    /\ \A v \in DEFAULT_VOS_ALL :
          storage_name \in {VSC_HOME, VSC_DATA} =>
              /\ v \notin DOMAIN ok_vos /\ v \notin DOMAIN error_vos
              /\ sor_modified[v] = Unread
              /\ (VoTaken /\ HistVo = v) =>
                    /\ ~hist.fetched /\ hist.m_ok = {} /\ hist.m_raised = {}
                    /\ modified_members = <<>>
                    /\ log = <<>>

C14_Witness ==
    /\ pc = "done" /\ storage_name = VSC_DATA /\ vos = <<OTHER_INSTITUTE_VO>>
    /\ ok_vos = <<>> /\ error_vos = <<>>

\* the VO v has a quota record on the shared data storage
HasSharingQuota(v) ==
    /\ sor_vo_quota[<<v, VSC_DATA_SHARED>>].known
    /\ sor_vo_quota[<<v, VSC_DATA_SHARED>>].val.has

\* C15: process_vos creates the shared data fileset and sets its quota exactly
\* when the storage is VSC_DATA_SHARED, the VO is not a default VO and the VO
\* has a data-sharing quota; a VO without one gets no shared fileset (no call
\* at all is made for it) and is not recorded as a failure.  Stated for the
\* runs in which no call raises.
C15_SharedFilesetIffSharing ==
    (VoEnded /\ faults = 0 /\ storage_name \notin VSC_PRODUCTION_SCRATCH) =>
        LET v == EndedVo
            sharing == storage_name = VSC_DATA_SHARED /\ v \notin DEFAULT_VOS_ALL
                       /\ HasSharingQuota(v)
            shared == Count(log, LAMBDA c : c.st = VSC_DATA_SHARED
                                            /\ c.op = "get_fileset_info"
                                            /\ c.arg.name = SharingGroup(v))
            quota == Count(log, LAMBDA c : c.st = VSC_DATA_SHARED
                                           /\ c.op = "set_fileset_quota"
                                           /\ c.arg.name = SharingGroup(v))
        IN  /\ sharing => shared = 1 /\ quota = 1
            /\ ~sharing => /\ shared = 0 /\ quota = 0
                            /\ storage_name = VSC_DATA_SHARED =>
                                  log = <<>> /\ MonoidDictGet(error_vos, v) = hist.err0

\* ------------------------------------------------- creation of a fileset
\* the call sequence cs follows the protocol: make_fileset comes right after
\* make_dir on the parent of its path, which comes right after a
\* get_fileset_info for the same fileset that found nothing; after a
\* get_fileset_info that found the fileset neither is called
FilesetProtocol(cs) ==
    \A k \in DOMAIN cs :
        /\ cs[k].op = "make_fileset" =>
              /\ k > 2
              /\ cs[k - 1].op = "make_dir" /\ cs[k - 1].path = Dirname(cs[k].path)
              /\ cs[k - 2].op = "get_fileset_info" /\ ~cs[k - 2].arg.found
              /\ cs[k - 2].arg.name = cs[k].arg.name /\ cs[k - 2].st = cs[k].st
        /\ cs[k].op = "make_dir" =>
              k > 1 /\ cs[k - 1].op = "get_fileset_info" /\ ~cs[k - 1].arg.found
        /\ (cs[k].op = "get_fileset_info" /\ cs[k].arg.found) =>
              \A n \in DOMAIN cs : n > k => cs[n].op \notin {"make_dir", "make_fileset"}
        /\ (cs[k].op = "get_fileset_info" /\ ~cs[k].arg.found /\ k + 2 \in DOMAIN cs) =>
              cs[k + 2].op = "make_fileset"

\* the projects, submitters and backend states MukProject is followed for
MukFilesets == {EmptyFs, [EmptyFs EXCEPT !.filesets = {[st |-> MUK_SCRATCH, name |-> 1]}]}
MukSubmitters == {[has |-> TRUE, uid |-> 7], [has |-> FALSE, uid |-> 0]}

\* the calls of MukProject.create_scratch_fileset follow the protocol, whether
\* the fileset of the project exists or not
MukFilesetProtocol ==
    \A f \in MukFilesets, sub \in MukSubmitters :
        FilesetProtocol(MukCreateScratchFilesetCalls(f, 1, sub, 1, 5))

\* C16: make_fileset is called only when get_fileset_info reports the fileset
\* absent, and then make_dir on the parent directory of the fileset path is
\* called before it; when the fileset exists neither make_dir nor
\* make_fileset is called (in _create_fileset, whose calls are in the log,
\* and in MukProject.create_scratch_fileset).
C16_FilesetCreationProtocol ==
    /\ FilesetProtocol(log)
    /\ \A k \in DOMAIN log :
          (log[k].op = "make_fileset" /\ k < Len(log) /\ ~dry_run) =>
              [st |-> log[k].st, name |-> log[k].arg.name] \in fs.filesets
    /\ MukFilesetProtocol

\* the first pass made the fileset; the second finds it and goes on to chmod
C16_Witness ==
    /\ pass = 2 /\ pc = "done" /\ ~dry_run
    /\ Cardinality(fs1.filesets) = 1
    /\ NumCalls("make_fileset") = 0 /\ NumCalls("make_dir") = 0
    /\ \E k \in DOMAIN log :
          log[k].op = "get_fileset_info" /\ log[k].arg.found /\ k < Len(log)

\* the fileset name of VO v on storage st (the sharing group on shared data)
FilesetName(st, v) == IF st = VSC_DATA_SHARED THEN SharingGroup(v) ELSE v

\* C17: after any sequence of passes, repeated and partially failed ones
\* included, each (VO, storage) pair has at most one fileset, at the path
\* that is a function of the VO identifier and the storage only.
C17_OneFilesetPerVoAndStorage ==
    /\ \A a, b \in DOMAIN fs.made :
          (fs.made[a].st = fs.made[b].st
              /\ (fs.made[a].name = fs.made[b].name
                    \/ fs.made[a].path.vo = fs.made[b].path.vo)) => a = b
    /\ \A a \in DOMAIN fs.made :
          \E v \in VoIds :
              /\ fs.made[a].name = FilesetName(fs.made[a].st, v)
              /\ fs.made[a].path = VoPath(fs.made[a].st, v)
    /\ fs.filesets = {[st |-> fs.made[a].st, name |-> fs.made[a].name] : a \in DOMAIN fs.made}

\* the first pass made the fileset and failed at chmod; the second pass
\* completes the provisioning of the same fileset
C17_Witness ==
    /\ pass = 2 /\ pc = "done" /\ faults > 0
    /\ Len(fs1.made) = 1 /\ fs1.mode = <<>>
    /\ fs.made = fs1.made /\ fs.mode # <<>>

\* C18: whenever a VO fileset (data, shared data or scratch) is created on a
\* gpfs storage whose version is below 3.5.0.0, make_fileset is called with an
\* explicit parent fileset; at or above it, and on other backends, without.
C18_ParentFilesetBelowThreshold ==
    \A k \in DOMAIN log :
        log[k].op = "make_fileset" =>
            (log[k].arg.parent # "none" <=>
                (storage_conf[log[k].st].backend = "gpfs" /\ storage_conf[log[k].st].old))

\* ------------------------------------------------- ownership of a fileset
\* the chown calls of the call sequence cs
Chowns(cs) == {k \in DOMAIN cs : cs[k].op = "chown"}

\* C19: _create_fileset calls chown with the uid of the VO's first moderator
\* when it can be resolved, and with the uid of nobody when the VO has no
\* moderator or the moderator lookup fails; in each case chown is called once
\* (right after chmod) and the provisioning goes on.  MukProject likewise
\* uses the submitter, else nobody, and goes on to the fileset quota.
C19_OwnerFallsBackToNobody ==
    /\ hist.owner = "" => Chowns(log) = {}
    /\ hist.owner # "" =>
          /\ Cardinality(Chowns(log)) = 1
          /\ \A k \in Chowns(log) :
                /\ log[k].arg.uid = (IF hist.owner = "moderator"
                                     THEN Uid(HistVo, 1) ELSE NOBODY_UID)
                /\ log[k].arg.gid = FilesetName(log[k].st, HistVo)
                /\ k > 1 /\ log[k - 1].op = "chmod"
          \* the failed lookup is the only fault: the VO goes on
          /\ (faults = (IF hist.owner = "lookup_failed" THEN 1 ELSE 0)) =>
                ~hist.vo_failed /\ pc \notin {"vo_except", "crashed"}
    /\ \A f \in MukFilesets, sub \in MukSubmitters :
          LET cs == MukCreateScratchFilesetCalls(f, 1, sub, 1, 5)
          IN  /\ Cardinality(Chowns(cs)) = 1
              /\ \A k \in Chowns(cs) :
                    /\ cs[k].arg.uid = (IF sub.has THEN sub.uid ELSE NOBODY_UID)
                    /\ cs[k - 1].op = "chmod"
                    /\ k < Len(cs) /\ cs[k + 1].op = "set_fileset_quota"

\* the moderator lookup failed; the fileset is owned by nobody and has its quota
C19_Witness ==
    /\ pc = "done" /\ ~dry_run /\ VoTaken
    /\ hist.owner = "lookup_failed" /\ faults = 1 /\ ~hist.vo_failed
    /\ \E p \in DOMAIN fs.owner : fs.owner[p].uid = NOBODY_UID
    /\ fs.fsquota # <<>>

\* ------------------------------------------------------ order of processing
\* the calls of the log that are made for a member, as the members they are for
MemberCallsOf(cs) ==
    SelectSeq(cs, LAMBDA c : c.op \in {"set_user_quota", "create_stat_directory"})

\* C20: process_vos processes the VOs, and within each VO its modified
\* members, in ascending identifier order, whatever order the changeset and
\* the system of record deliver them in.
C20_SortedOrder ==
    /\ \A a, b \in DOMAIN vos : a < b => vos[a] <= vos[b]
    /\ \A a, b \in DOMAIN modified_members :
          (a < b /\ b <= j) => modified_members[a] < modified_members[b]
    /\ LET ms == MemberCallsOf(log)
       IN  \A a, b \in DOMAIN ms :
               a < b => (IF ms[a].op = "set_user_quota" THEN ms[a].arg.user ELSE ms[a].arg.uid)
                         <= (IF ms[b].op = "set_user_quota" THEN ms[b].arg.user ELSE ms[b].arg.uid)

\* ------------------------------------------------------ the members' delta
\* the member a call of the log is made for
MemberOfCall(c) == IF c.op = "set_user_quota" THEN c.arg.user ELSE c.arg.uid

ParsedDump == sacct.pc = "done" /\ sacct.call = "parse_slurm_sacct_dump"
\* the data lines of the dump, as positions in lines
DataPos == 2..Len(sacct.lines)
\* the pipe-separated values of a line
Values(line) == Split(line, Bar)
\* a header of N columns and data lines of N values each
SameCounts ==
    /\ sacct.lines # <<>>
    /\ \A k \in DataPos : Len(Values(sacct.lines[k])) = Len(Values(sacct.lines[1]))
\* the field named by a column of the header, "" when there is none
FieldOf(col) == IF \E f \in Range(SacctJobsFields) : col = <<f>>
                THEN CHOOSE f \in Range(SacctJobsFields) : col = <<f>> ELSE ""
\* the record that holds, for every column of header line h, the value of
\* line at the position of the column, and None in every other field
RecordOf(h, line) ==
    [f \in Range(SacctJobsFields) |->
        IF \E p \in DOMAIN Values(h) : Values(h)[p] = <<f>>
        THEN Values(line)[CHOOSE p \in DOMAIN Values(h) : Values(h)[p] = <<f>>]
        ELSE None]

\* C22 as stated: for a header of N columns and data lines of N values each,
\* parse_slurm_sacct_dump with record type jobs returns exactly one record
\* per distinct data line, each field holding the value at the position of
\* its column in the header.
C22_OneRecordPerLine ==
    (ParsedDump /\ sacct.info_type = jobs /\ SameCounts) =>
        /\ sacct.result.exc = ""
        /\ Cardinality(sacct.result.val) = Cardinality({sacct.lines[k] : k \in DataPos})
        /\ \A k \in DataPos : \E r \in sacct.result.val :
              \A p \in DOMAIN Values(sacct.lines[1]) :
                  FieldOf(Values(sacct.lines[1])[p]) # "" =>
                      r[FieldOf(Values(sacct.lines[1])[p])] = Values(sacct.lines[k])[p]

\* the header names distinct fields of SlurmJobs and nothing else
HeaderOfFields ==
    /\ \A p \in DOMAIN Values(sacct.lines[1]) : FieldOf(Values(sacct.lines[1])[p]) # ""
    /\ \A p, q \in DOMAIN Values(sacct.lines[1]) :
          Values(sacct.lines[1])[p] = Values(sacct.lines[1])[q] => p = q

\* C22 (amended): for a header of N distinct columns that are fields of the
\* record type and data lines of N values each, parse_slurm_sacct_dump with
\* record type jobs returns exactly the records of the data lines taken
\* without their trailing whitespace, one per distinct such line: every
\* field named in the header holds the value at the position of its column
\* (an empty value is the empty string), every other field is None.
C22_OneRecordPerStrippedLine ==
    (ParsedDump /\ sacct.info_type = jobs /\ SameCounts /\ HeaderOfFields) =>
        /\ sacct.result = Return({RecordOf(sacct.lines[1], Rstrip(sacct.lines[k])) : k \in DataPos})
        /\ Cardinality(sacct.result.val) = Cardinality({Rstrip(sacct.lines[k]) : k \in DataPos})

\* header State|JobID and two distinct data lines, one with an empty State
\* and one with an empty JobID: two records
C22_Witness ==
    /\ ParsedDump /\ sacct.info_type = jobs /\ SameCounts /\ HeaderOfFields
    /\ sacct.lines[1] = <<"State", Bar, "JobID">>
    /\ Len(sacct.lines) = 3
    /\ sacct.lines[2] = <<"1", Bar>> /\ sacct.lines[3] = <<Bar, "1">>
    /\ Cardinality(sacct.result.val) = 2
    /\ \E r \in sacct.result.val : r.State = <<"1">> /\ r.JobID = <<>> /\ r.JobName = None

\* C23: parse_slurm_sacct_dump raises and the caller receives no record
\* whenever some data line has a number of values different from the number
\* of header columns.
C23_CountMismatchRaises ==
    (ParsedDump /\ sacct.lines # <<>> /\ ~SameCounts) =>
        sacct.result.exc # "" /\ sacct.result.val = {}

\* C24: for a record-type selector that is no known type, and for every dump
\* (one without data lines included), parse_slurm_sacct_dump raises
\* SacctParseException and returns no record.
C24_UnknownTypeRaises ==
    (ParsedDump /\ sacct.lines # <<>> /\ sacct.info_type # jobs) =>
        sacct.result = Raise("SacctParseException")

\* C25: the result of parse_slurm_sacct_dump is a set of records: identical
\* data lines yield one record, and every dump with the same header and the
\* same data lines, in any order and any multiplicity, has the same result.
C25_ResultIsASet ==
    (ParsedDump /\ sacct.lines # <<>>) =>
        LET data == {sacct.lines[k] : k \in DataPos}
        IN  /\ Cardinality(sacct.result.val) <= Cardinality(data)
            /\ \A ls \in SeqsUpTo(data, MaxLines) :
                  Range(ls) = data =>
                      parse_slurm_sacct_dump(<<sacct.lines[1]>> \o ls, sacct.info_type)
                          = sacct.result

\* header JobID|State and the same data line twice: one record
C25_Witness ==
    /\ ParsedDump /\ sacct.info_type = jobs
    /\ sacct.lines = <<<<"JobID", Bar, "State">>, <<"1", Bar>>, <<"1", Bar>>>>
    /\ sacct.result.exc = ""
    /\ Cardinality(sacct.result.val) = 1

\* C26: whenever the sacct query exits with code 0,
\* get_slurm_sacct_active_jobs_for_user returns the set of records that
\* parse_slurm_sacct_dump yields for the lines of the output and record type
\* jobs.
C26_ActiveJobsAreParsed ==
    (sacct.pc = "done" /\ sacct.call = "get_slurm_sacct_active_jobs_for_user"
        /\ sacct.exitcode = 0) =>
        sacct.result = parse_slurm_sacct_dump(sacct.lines, jobs)

\* ------------------------------------------- the commands of sync_slurm_acct
\* the run of a command exited non-zero
CommandFailed == \E k \in DOMAIN slurm_sync.ran : slurm_sync.ran[k].ec # 0

\* C27: execute_commands runs the commands in list order, one at a time; at
\* the first command that exits non-zero it raises: no later command is run,
\* the commands already run stay applied, and the run ends critical.
C27_CommandsInSequenceUntilFailure ==
    LET ran == slurm_sync.ran
        cs == slurm_sync.sacctmgr_commands
    IN  /\ Len(ran) <= Len(cs)
        /\ \A k \in DOMAIN ran : ran[k].command = cs[k]
        /\ \A k \in DOMAIN ran : ran[k].ec # 0 =>
              k = Len(ran) /\ slurm_sync.pc \in {"except", "exited"}
        /\ slurm_sync.slurm_db = [k \in 1..Cardinality({n \in DOMAIN ran : ran[n].ec = 0}) |-> cs[k]]
        /\ (CommandFailed /\ slurm_sync.pc = "exited") =>
              slurm_sync.nagios = "critical" /\ slurm_sync.exit = "NAGIOS_EXIT_CRITICAL"
        /\ slurm_sync.pc = "finished" =>
              (~CommandFailed /\ Len(ran) = (IF slurm_sync.dry_run THEN 0 ELSE Len(cs)))
        /\ CommandFailed => slurm_sync.pc # "finished"

\* three commands: the first is applied, the second fails, the third is not run
C27_Witness ==
    /\ slurm_sync.pc = "exited"
    /\ Len(slurm_sync.sacctmgr_commands) = 3
    /\ Len(slurm_sync.ran) = 2
    /\ slurm_sync.ran[1].ec = 0 /\ slurm_sync.ran[2].ec # 0
    /\ slurm_sync.slurm_db = <<slurm_sync.sacctmgr_commands[1]>>
    /\ slurm_sync.nagios = "critical"

\* --------------------------------------------- how a run of the sync ends
\* C28: if an exception leaves the body of a run of sync_ugent_vsc_users, the
\* run reports critical, exits with the critical status and leaves the
\* timestamp as it was; a run that has failures but raises nothing reaches
\* the epilogue, with the counts of every storage process_vos was called for.
C28_CriticalOnlyWhenRaised ==
    main.pc # "none" =>
        /\ main.exc => /\ main.pc = "exited"
                       /\ main.nagios = "critical" /\ main.exit = "NAGIOS_EXIT_CRITICAL"
                       /\ timestamp_file = main.ts0 /\ ~main.written
        /\ main.pc = "exited" => main.exc
        /\ main.pc = "end" =>
              /\ main.nagios = "epilogue"
              /\ main.vo => DOMAIN main.stats = Range(main.storages)
              /\ main.failed # {} =>
                    \E st \in DOMAIN main.stats : main.stats[st].vos_sync_fail > 0

\* the second run of the script, with a failed VO and no exception, is in
\* its epilogue and has not written the timestamp
C28_Witness ==
    /\ main.pc = "end" /\ main.run = 2 /\ ~main.exc
    /\ main.failed # {}
    /\ \E st \in DOMAIN main.stats : main.stats[st].vos_sync_fail > 0
    /\ ~main.written /\ timestamp_file = main.ts0

\* -------------------------------------------------- dry_run on the backends
\* process_vos is inside the loop body of a VO, where the backend calls are
InLoopBody == pc \notin {"idle", "loop", "done", "crashed"}
\* the calls that change a backend
MutatingCalls(cs) == SelectSeq(cs, LAMBDA c : c.op \notin ReadOps /\ c.st \in Storages)

\* C29: setting dry_run on a VO sets it on the backend operator of every
\* storage, and process_vos does so for every VO before any backend call for
\* the VO: inside the loop body every operator holds options.dry_run, and in
\* a dry run no call made through them changes a backend.
C29_BackendsSeeDryRun ==
    /\ InLoopBody => \A st \in Storages : backend_dry_run[st] = dry_run
    /\ dry_run => fs = EmptyFs

\* a dry run has issued a mutating call for a VO on a storage other than the
\* home storage, and the backend is as it was
C29_Witness ==
    /\ dry_run /\ InLoopBody
    /\ storage_name # VSC_HOME
    /\ MutatingCalls(log) # <<>>
    /\ backend_dry_run[storage_name]
    /\ fs = EmptyFs

\* ------------------------------------------------- the append-only result maps
\* every key of d1 is a key of d2, and what d1 holds for it is the start of
\* what d2 holds for it
KeepsEntries(d1, d2) ==
    \A k \in DOMAIN d1 :
        /\ k \in DOMAIN d2
        /\ d2[k].kind = d1[k].kind
        /\ Len(d1[k].items) <= Len(d2[k].items)
        /\ SubSeq(d2[k].items, 1, Len(d1[k].items)) = d1[k].items
\* the assignment of a member list to a key of the map d that has a value:
\* the key then holds its former list followed by the new one
Concatenated(d1, d2, k, new) ==
    k \in DOMAIN d1 => /\ k \in DOMAIN d2
                       /\ d2[k] = ListVal(d1[k].items \o new)

\* C30: the ok and the failed map are append-only: no assignment of lines
\* 626, 629 or 633 removes or overwrites what a key holds, and an assignment
\* of a member list to a key that has entries leaves the former list followed
\* by the new one (at line 633 the new list is the list of the VO's members).
C30_MapsAppendOnly ==
    [][ /\ KeepsEntries(ok_vos, ok_vos') /\ KeepsEntries(error_vos, error_vos')
        /\ (pc = "member_ok" /\ pc' # "member_except") =>
               Concatenated(ok_vos, ok_vos', vo_id, <<member>>)
        /\ (pc = "member_except" /\ hist'.handler_raised # "HTTPError") =>
               Concatenated(error_vos, error_vos', vo_id, <<member>>)
        /\ pc = "vo_except" =>
               Concatenated(error_vos, error_vos', vo_id, VoMembers(vo_id)) ]_vars

\* ------------------------------------------ the cached properties of a VO
\* One VscTier2AccountpageVo object, its properties read in any order while
\* another writer may change what the accountpage holds.  Every REST call
\* answers.
MaxQuota == 2      \* quota records the accountpage holds for the VO
MaxReads == 3      \* property reads made on the object

\* an attribute that is None, or holds x
Nothing == <<>>
Just(x) == <<x>>

GENT == "gent"
DATA_KEY == "data"
SCRATCH_KEY == "scratch"
\* the quota records of a VO: the institute of the storage, its type, whether
\* its name ends in STORAGE_SHARED_SUFFIX, and the hard limit
QuotaEntries ==
    {[institute |-> GENT, storage_type |-> DATA_KEY, shared |-> FALSE, hard |-> 5],
     [institute |-> GENT, storage_type |-> DATA_KEY, shared |-> TRUE, hard |-> 5],
     [institute |-> GENT, storage_type |-> DATA_KEY, shared |-> TRUE, hard |-> 0],
     [institute |-> GENT, storage_type |-> SCRATCH_KEY, shared |-> FALSE, hard |-> 5],
     [institute |-> "brussel", storage_type |-> DATA_KEY, shared |-> FALSE, hard |-> 5]}
\* what the accountpage holds for the VO: its record and its quota records
SorOfVo == [vo : [vsc_id : {1}, status : {MODIFIED, ACTIVE}],
            quota : SeqsUpTo(QuotaEntries, MaxQuota)]

\* VscTier2AccountpageVo.__init__: every cache is None
NewVoObject(sor0) ==
    [pc |-> "live", sor |-> sor0, written |-> FALSE, reads |-> 0,
     vo_cache |-> Nothing, institute_quota_cache |-> Nothing,
     vo_data_quota_cache |-> Nothing, vo_data_shared_quota_cache |-> Nothing,
     vo_scratch_quota_cache |-> Nothing, sharing_group_cache |-> Nothing,
     gets |-> [vo |-> 0, quota |-> 0, autogroup |-> 0],
     first |-> [p \in {"vo", "vo_data_quota", "vo_data_shared_quota",
                       "vo_scratch_quota", "sharing_group"} |-> Nothing],
     same |-> TRUE]

\* `not x` for an attribute that holds None or an object (a named tuple)
NotObject(c) == c = Nothing
\* `not x` for an attribute that holds None or a list
NotList(c) == c = Nothing \/ c[1] = <<>>
\* `not x` for an attribute that holds None or a number
NotNumber(c) == c = Nothing \/ c[1] = 0

\* line 117: if not self._institute_quota_cache
StaleQuota(c) == NotList(c)

\* VscAccountPageVo.vo
vo_of(o) ==
    IF NotObject(o.vo_cache)
    THEN [obj |-> [o EXCEPT !.vo_cache = Just(o.sor.vo), !.gets.vo = @ + 1],
          val |-> o.sor.vo]
    ELSE [obj |-> o, val |-> o.vo_cache[1]]

\* VscTier2AccountpageVo._institute_quota
institute_quota(o) ==
    IF StaleQuota(o.institute_quota_cache)
    THEN LET o1 == vo_of(o).obj
             fetched == SelectSeq(o.sor.quota, LAMBDA q : q.institute = GENT)
         IN  [obj |-> [o1 EXCEPT !.institute_quota_cache = Just(fetched),
                                 !.gets.quota = @ + 1],
              val |-> fetched]
    ELSE [obj |-> o, val |-> o.institute_quota_cache[1]]

\* [q.hard for q in qs]
Hards(qs) == [k \in DOMAIN qs |-> qs[k].hard]
\* _get_institute_non_shared_data_quota and _get_institute_shared_data_quota
DataHards(qs, shared) ==
    Hards(SelectSeq(qs, LAMBDA q : q.storage_type = DATA_KEY /\ q.shared = shared))

\* VscTier2AccountpageVo.vo_data_quota
vo_data_quota(o) ==
    IF NotList(o.vo_data_quota_cache)
    THEN LET r == institute_quota(o)
             found == DataHards(r.val, FALSE)
             kept == IF found = <<>> THEN <<quota_vo>> ELSE found
         IN  [obj |-> [r.obj EXCEPT !.vo_data_quota_cache = Just(kept)], val |-> Just(kept[1])]
    ELSE [obj |-> o, val |-> Just(o.vo_data_quota_cache[1][1])]

\* VscTier2AccountpageVo.vo_data_shared_quota (None when there is no record)
vo_data_shared_quota(o) ==
    IF NotNumber(o.vo_data_shared_quota_cache)
    THEN LET r == institute_quota(o)
             found == DataHards(r.val, TRUE)
         IN  IF found = <<>>
             THEN [obj |-> r.obj, val |-> Nothing]
             ELSE [obj |-> [r.obj EXCEPT !.vo_data_shared_quota_cache = Just(found[1])],
                   val |-> Just(found[1])]
    ELSE [obj |-> o, val |-> o.vo_data_shared_quota_cache]

\* VscTier2AccountpageVo.vo_scratch_quota
vo_scratch_quota(o) ==
    IF NotList(o.vo_scratch_quota_cache)
    THEN LET r == institute_quota(o)
             found == SelectSeq(r.val, LAMBDA q : q.storage_type = SCRATCH_KEY)
         IN  [obj |-> [r.obj EXCEPT !.vo_scratch_quota_cache = Just(found)], val |-> Just(found)]
    ELSE [obj |-> o, val |-> o.vo_scratch_quota_cache]

\* VscTier2AccountpageVo.sharing_group (None for a VO without data sharing)
sharing_group(o) ==
    LET r == vo_data_shared_quota(o)
    IN  IF r.val = Nothing
        THEN [obj |-> r.obj, val |-> Nothing]
        ELSE IF NotObject(r.obj.sharing_group_cache)
        THEN LET o1 == vo_of(r.obj).obj
                 group == [vsc_id |-> SharingGroup(o1.vo_cache[1].vsc_id)]
             IN  [obj |-> [o1 EXCEPT !.sharing_group_cache = Just(group),
                                     !.gets.autogroup = @ + 1],
                  val |-> Just(group)]
        ELSE [obj |-> r.obj, val |-> r.obj.sharing_group_cache]

InitVoObject ==
    /\ Idle
    /\ sacct = NoSacct
    /\ slurm_sync = NoSlurmSync
    /\ \E sor0 \in SorOfVo : vo_obj = NewVoObject(sor0)

\* a property was read and returned r.val: the object after the read
AfterRead(p, r, v) ==
    [r.obj EXCEPT !.reads = @ + 1,
                  !.first[p] = IF @ = Nothing THEN Just(v) ELSE @,
                  !.same = @ /\ (r.obj.first[p] = Nothing \/ r.obj.first[p] = Just(v))]

ReadProperty(p, r, v) ==
    /\ vo_obj.pc = "live"
    /\ vo_obj.reads < MaxReads
    /\ vo_obj' = AfterRead(p, r, v)
    /\ UNCHANGED <<args, ctl, res, fs, backend_dry_run, sor, log, hist, faults,
                   pass, fs1, main, timestamp_file, sor_changed, sacct, slurm_sync>>

ReadVo == ReadProperty("vo", vo_of(vo_obj), <<vo_of(vo_obj).val>>)
ReadVoDataQuota == ReadProperty("vo_data_quota", vo_data_quota(vo_obj), vo_data_quota(vo_obj).val)
ReadVoDataSharedQuota ==
    ReadProperty("vo_data_shared_quota", vo_data_shared_quota(vo_obj),
                 vo_data_shared_quota(vo_obj).val)
ReadVoScratchQuota ==
    ReadProperty("vo_scratch_quota", vo_scratch_quota(vo_obj), vo_scratch_quota(vo_obj).val)
ReadSharingGroup ==
    ReadProperty("sharing_group", sharing_group(vo_obj), sharing_group(vo_obj).val)

\* another client of the accountpage changes the VO's record or its quota
AccountpageWrite ==
    /\ vo_obj.pc = "live"
    /\ ~vo_obj.written
    /\ \E new \in SorOfVo :
         /\ new # vo_obj.sor
         /\ vo_obj' = [vo_obj EXCEPT !.sor = new, !.written = TRUE]
    /\ UNCHANGED <<args, ctl, res, fs, backend_dry_run, sor, log, hist, faults,
                   pass, fs1, main, timestamp_file, sor_changed, sacct, slurm_sync>>

NextVoObject ==
    \/ ReadVo
    \/ ReadVoDataQuota
    \/ ReadVoDataSharedQuota
    \/ ReadVoScratchQuota
    \/ ReadSharingGroup
    \/ AccountpageWrite

SpecVoObject == InitVoObject /\ [][NextVoObject]_vars

\* C31: a VO object resolves its VO record, its quota list and its sharing
\* group at most once: whatever was fetched (an empty quota list included),
\* no property read makes a second GET of the same resource, and every read
\* of a property returns what its first read returned.
C31_ResolvedAtMostOnce ==
    vo_obj.pc = "live" =>
        /\ vo_obj.gets.vo <= 1 /\ vo_obj.gets.quota <= 1 /\ vo_obj.gets.autogroup <= 1
        /\ vo_obj.same

\* ------------------------------------------------ status-transition errors
\* the PATCH of the current VO failed, or its response was not ACTIVE
StatusFailed == hist.patch_out \in {"http_error", "not_active"}

\* C32: a status-transition error is raised: after an HTTP error of the PATCH
\* update_vo_status raises VoStatusUpdateError, after a response that is not
\* ACTIVE it raises as well; the VO is then recorded as failed and none of its
\* members is processed.
C32_StatusErrorRaised ==
    /\ hist.patch_out = "http_error" => hist.exc = "VoStatusUpdateError"
    /\ hist.patch_out = "not_active" => hist.exc # ""
    /\ (VoEnded /\ StatusFailed) =>
          /\ EndedVo \in DOMAIN error_vos
          /\ ~hist.fetched /\ hist.m_ok = {} /\ hist.m_raised = {}

\* --------------------------------------- mode, ownership and quota are set
\* the calls issued by the step being taken
NewCalls == SubSeq(log', Len(log) + 1, Len(log'))
\* the step is a _create_fileset call that returns
CreateFilesetReturns ==
    \/ pc = "create_data_fileset" /\ pc' = "set_data_quota"
    \/ pc = "create_data_shared_fileset" /\ pc' = "set_data_shared_quota"
    \/ pc = "create_scratch_fileset" /\ pc' = "set_scratch_quota"
\* the step is a _set_quota call that returns
SetQuotaReturns ==
    \/ pc = "set_data_quota" /\ pc' = "update_vo_status"
    \/ pc = "set_scratch_quota" /\ pc' # "vo_except"
    \/ pc = "set_data_shared_quota" /\ pc' # "vo_except"
          /\ sor_vo_quota[<<vo_id, VSC_DATA_SHARED>>].val.hard # 0
\* the name of the fileset of the current VO on the storage of the pass
CurrentFileset ==
    [st |-> storage_name,
     name |-> IF storage_name = VSC_DATA_SHARED THEN SharingGroup(vo_id) ELSE vo_id]

\* C33: every _create_fileset call that returns has issued chmod 0770 and
\* then exactly one chown on the fileset path, whether or not the fileset
\* existed, and every _set_quota call that returns has set the fileset quota
\* and then the grace period; outside a dry run the backend then holds the
\* mode, the owner and the quota of these calls.
C33_ModeOwnerQuotaAlwaysSet ==
    [][ LET cs == NewCalls
            n == Len(cs)
            path == VoPath(storage_name, vo_id)
        IN  /\ CreateFilesetReturns =>
                 /\ n >= 2
                 /\ cs[n - 1] = Call("chmod", storage_name, path, [mode |-> FILESET_MODE])
                 /\ cs[n].op = "chown" /\ cs[n].path = path
                 /\ Cardinality({k \in 1..n : cs[k].op = "chown"}) = 1
                 /\ ~dry_run =>
                       /\ fs'.mode[path] = FILESET_MODE
                       /\ fs'.owner[path] = [uid |-> cs[n].arg.uid, gid |-> cs[n].arg.gid]
            /\ SetQuotaReturns =>
                 /\ n = 2
                 /\ cs[1].op = "set_fileset_quota" /\ cs[1].path = path
                 /\ cs[2] = Call("set_fileset_grace", storage_name, path, NoArg)
                 /\ ~dry_run =>
                       /\ fs'.fsquota[CurrentFileset] =
                             [soft |-> cs[1].arg.soft, hard |-> cs[1].arg.hard]
                       /\ path \in fs'.grace ]_vars

\* in the second call of process_vos the fileset was found, mode and owner
\* were set again by one chmod and one chown, and the quota and the grace
\* period were set again
C33_Witness ==
    /\ pass = 2 /\ ~dry_run /\ pc = "update_vo_status"
    /\ OpsOf(log) = <<"list_filesets", "get_fileset_info", "chmod", "chown",
                      "set_fileset_quota", "set_fileset_grace">>
    /\ log[2].arg.found
    /\ fs.mode[VoPath(VSC_DATA, vo_id)] = FILESET_MODE
    /\ [st |-> VSC_DATA, name |-> vo_id] \in DOMAIN fs.fsquota

\* --------------------------------------------------------- set_scratch_quota
\* the scratch quota records the step has read for the current VO
ScratchRecs == sor_vo_quota'[<<vo_id, storage_name>>]

\* C34: set_scratch_quota applies the default VO quota of the storage when
\* the VO has no scratch quota record for it, the hard value of the record
\* when there is one, and raises without setting a quota when there are more.
C34_ScratchQuotaCases ==
    [][ (pc = "set_scratch_quota" /\ ScratchRecs.known) =>
          LET q == ScratchRecs.val
              cs == NewCalls
          IN  /\ q.many => pc' = "vo_except" /\ cs = <<>> /\ fs' = fs
              /\ (~q.many /\ cs # <<>>) =>
                    /\ cs[1].op = "set_fileset_quota"
                    /\ cs[1].path = VoPath(storage_name, vo_id)
                    /\ LimitsOf(cs[1], IF q.has THEN q.hard ELSE quota_vo)
              /\ (~q.many /\ pc' # "vo_except") =>
                    /\ Len(cs) = 2
                    /\ ~dry_run =>
                          fs'.fsquota[[st |-> storage_name, name |-> vo_id]].hard =
                             (IF q.has THEN q.hard ELSE quota_vo) * 1024
                                * ReplicationFactor(storage_name) ]_vars

\* the VO has no scratch quota record, and the fileset has the default quota
C34_Witness ==
    /\ pc = "fetch_members" /\ ~dry_run
    /\ storage_name \in VSC_PRODUCTION_SCRATCH
    /\ sor_vo_quota[<<vo_id, storage_name>>] = Known(NoQuotaRec)
    /\ fs.fsquota[[st |-> storage_name, name |-> vo_id]].hard =
          quota_vo * 1024 * ReplicationFactor(storage_name)
    /\ NumCalls("set_fileset_grace") = 1

\* ----------------------------------------------- the sacct query that failed
\* the query was made and sacct exited non-zero
QueryFailed ==
    sacct.pc = "done" /\ sacct.call = "get_slurm_sacct_active_jobs_for_user"
        /\ sacct.exitcode # 0

\* C35: when sacct exits non-zero, get_slurm_sacct_active_jobs_for_user
\* returns None if the output reports the user as an invalid user id and
\* raises SacctException otherwise; the output is parsed in neither case.
C35_FailedQuery ==
    QueryFailed =>
        /\ sacct.result = IF \E k \in DOMAIN sacct.contents :
                                /\ k + 1 \in DOMAIN sacct.contents
                                /\ sacct.contents[k] = InvalidUserMsg
                                /\ sacct.contents[k + 1] = SacctUser
                          THEN ReturnNone ELSE Raise("SacctException")
        /\ sacct.result.val = {}
        /\ sacct.result.exc \notin {"IndexError", "SacctParseException", "KeyError"}

\* sacct printed a part of the dump and failed: SacctException, no record
C35_Witness ==
    /\ QueryFailed
    /\ Len(Splitlines(sacct.contents)) = 3
    /\ sacct.result = Raise("SacctException")

\* ------------------------------------------- when the VO is set to active
\* this step sends the PATCH of the current VO's status
PatchSent == Len(log') = Len(log) + 1 /\ log'[Len(log')] = PatchCall(vo_id)
\* the calls of the current VO so far end with those of a data fileset
\* creation followed by those of a data quota setting, all of them on the
\* data fileset of the VO
DataFilesetAndQuotaInLog ==
    /\ Len(log) >= 6
    /\ LET n == Len(log)
           path == VoPath(VSC_DATA, vo_id)
       IN  /\ log[1].op = "list_filesets" /\ log[2].op = "get_fileset_info"
           /\ log[n - 3].op = "chmod" /\ log[n - 3].path = path
           /\ log[n - 2].op = "chown" /\ log[n - 2].path = path
           /\ log[n - 1].op = "set_fileset_quota" /\ log[n - 1].path = path
           /\ log[n].op = "set_fileset_grace" /\ log[n].path = path

\* C36: the ACTIVE transition is requested only in the VSC_DATA pass of a
\* non-default VO, after the data fileset creation and the data quota
\* setting of that VO both returned in the same pass; a VO whose fileset or
\* quota step raised is not set active by the pass.
C36_ActiveOnlyAfterFilesetAndQuota ==
    [][/\ PatchSent =>
            /\ storage_name = VSC_DATA
            /\ vo_id \notin DEFAULT_VOS_ALL
            /\ ~dry_run
            /\ ~hist.vo_failed
            /\ hist.patches = 0
            /\ DataFilesetAndQuotaInLog
       /\ (hist.vo_failed /\ hist.patches = 0) => ~PatchSent]_vars

\* a VO was set active after its fileset was made and its quota set
C36_Witness ==
    /\ pc \notin {"loop", "done"}
    /\ hist.patches = 1 /\ hist.patch_out = "active"
    /\ \E n \in DOMAIN log : log[n].op = "make_fileset"
    /\ log[Len(log)] = PatchCall(vo_id)

\* ------------------------------------- a member whose quota step raised
\* the position of member m in the modified members of the current VO
IndexOf(m) == CHOOSE n \in DOMAIN modified_members : modified_members[n] = m
\* the times m stands in a result list
Occurrences(val, m) ==
    IF val.kind = "list" THEN Cardinality({n \in DOMAIN val.items : val.items[n] = m}) ELSE 0
\* a directory was asked for member number n of the current VO
DirectoryAsked(n) ==
    \E c \in DOMAIN log : /\ log[c].op = "create_stat_directory"
                          /\ log[c].path.member = modified_members[n]
\* process_vos is through with the one VO it was called for
VoFinished == Len(vos) = 1 /\ pc \in {"done", "crashed"}

\* C37: for each modified member the quota step precedes the directory
\* creation; when the quota step raises, no directory is created for that
\* member in the pass and the member is recorded as failed only.
C37_QuotaBeforeDirectory ==
    /\ \A n \in DOMAIN modified_members :
          DirectoryAsked(n) => Len(hist.m_quota) >= n /\ hist.m_quota[n] = "returned"
    /\ \A n \in DOMAIN hist.m_quota :
          hist.m_quota[n] = "raised" =>
             /\ ~DirectoryAsked(n)
             /\ VoFinished =>
                   /\ Occurrences(MonoidDictGet(error_vos, vos[1]), modified_members[n]) = 1
                   /\ Occurrences(MonoidDictGet(ok_vos, vos[1]), modified_members[n]) = 0

\* ----------------------------------- a VO in both lists of the changeset
\* no item stands twice in a result list
NoItemTwice(val) == val.kind = "list" => Injective(val.items)

\* C38: within one run of sync_ugent_vsc_users each VO is processed by
\* process_vos at most once per storage, also when it is in the list of the
\* changed VOs and in the list of the VOs with a changed quota; no member is
\* recorded twice in ok or failed for the same storage.
C38_VoOncePerStorage ==
    main.pc = "in_process_vos" =>
        /\ Injective(vos)
        /\ \A v \in DOMAIN ok_vos : NoItemTwice(ok_vos[v])
        /\ \A v \in DOMAIN error_vos : NoItemTwice(error_vos[v])

\* -------------------------------------- every modified member is recorded
\* process_vos returned; the VO-level steps of the one VO it was called for
\* returned and the VO's modified members were fetched
VoLevelSucceeded ==
    Len(vos) = 1 /\ pc = "done" /\ hist.fetched /\ ~hist.vo_failed

\* C39: after process_vos returns, for every VO whose VO-level steps
\* succeeded, each modified member is exactly once in exactly one of ok[VO]
\* and failed[VO]: no member is in both and none is missing.
C39_EveryMemberRecordedOnce ==
    VoLevelSucceeded =>
        \A n \in DOMAIN modified_members :
            Occurrences(MonoidDictGet(ok_vos, vos[1]), modified_members[n])
              + Occurrences(MonoidDictGet(error_vos, vos[1]), modified_members[n]) = 1

\* ------------------------------- a modification made while a run is going on
\* C40: a modification made by an external writer while a run is in progress
\* is not lost: the timestamp a successful run writes is the time taken
\* before the run asked for its changeset, so the modification is inside the
\* "modified since" window of the next run (and is selected by it).
C40_LateWriteNotLost ==
    /\ (main.pc = "end" /\ main.written) => timestamp_file = main.now /\ main.now = main.run
    /\ \A n \in DOMAIN sor_changed.late :
          LET w == sor_changed.late[n]
          IN  /\ main.run = w.during => timestamp_file <= w.during
              /\ (main.run = w.during + 1 /\ main.pc # "start") =>
                    /\ main.last_timestamp <= w.during
                    /\ main.pc \in {"process_vos", "in_process_vos"} =>
                          w.vo \in Range(main.ugent_vos)

\* a VO modified during the first run, which wrote its timestamp, is in the
\* changeset of the second run, and only because of that modification
C40_Witness ==
    /\ main.run = 2 /\ main.pc = "in_process_vos"
    /\ main.last_timestamp = 1
    /\ Len(sor_changed.late) = 1
    /\ sor_changed.late[1].during = 1
    /\ main.ugent_vos = <<sor_changed.late[1].vo>>
    /\ sor_changed.late[1].vo \notin Range(sor_changed.vos)

====
